---- MODULE Spec2Model ----
(***************************************************************************)
(* Verification model of the joutatsu backend (backend/app).               *)
(*                                                                         *)
(* Part 1: the segmenter, ContentService._chunk_text                       *)
(*         (app/services/content_service.py).                              *)
(* Part 2: the mastery scorer, ScoringService with ProgressRepository and  *)
(*         VocabularyRepository (app/services/scoring_service.py,          *)
(*         app/repositories/progress_repo.py, vocabulary_repo.py).         *)
(*                                                                         *)
(* Each part has its own variables and its own specification; the          *)
(* variables of the other parts stay at their initial values.              *)
(*                                                                         *)
(* Characters: TLA+ strings are ASCII, so the text alphabet is written     *)
(*   "a"   an ordinary (non-whitespace, non-terminator) character          *)
(*   "."   a sentence terminator that is not whitespace (the ideographic   *)
(*         full stop, exclamation mark and question mark of                *)
(*         SENTENCE_ENDINGS behave alike)                                  *)
(*   " "   whitespace that is not a terminator                             *)
(*   "\n"  newline: whitespace and a member of SENTENCE_ENDINGS            *)
(* A text is a sequence of characters.                                     *)
(***************************************************************************)
EXTENDS Integers, Sequences, FiniteSets, TLC

VARIABLES
    \* ---- segmenter: ContentService._chunk_text(text, max_size) ----
    text,           \* argument text
    max_size,       \* argument max_size
    i,              \* loop index (1-based here, 0-based in the source)
    current_chunk,  \* local current_chunk
    chunks,         \* local chunks, the returned list once seg_pc = "done"
    seg_pc,         \* position in _chunk_text: "entry", "scan", "done"
    \* ---- mastery scorer: the database and the requests in flight ----
    vocabulary,         \* table vocabulary: row id k holds dictionary_form
    vocabulary_scores,  \* table vocabulary_scores: row id k holds the columns
    req,                \* per request: position, arguments, locals, session
    started,            \* number of record requests received so far
    returned,           \* history: per dictionary form, the events that returned
    \* ---- calculate_score called on its own ----
    calc_obj,           \* argument score_obj
    calc_result,        \* the value returned, once calc_pc = "done"
    calc_pc,            \* "idle", "call", "done"
    \* ---- ScoringService.record_batch_read(dictionary_forms, looked_up_forms) ----
    dictionary_forms,   \* argument dictionary_forms, a list
    looked_up_forms,    \* argument looked_up_forms, a set
    form_idx,           \* position of the for loop in dictionary_forms (1-based)
    updates,            \* local updates, the returned list once batch_pc = "done"
    batch_session,      \* identity map of the request's session between events
    batch_pc,           \* "idle", "loop", "event", "done", "aborted"
    \* ---- TokenizerService.tokenize(text, mode, merge_conjugations) ----
    tk_text,            \* argument text
    merge_conjugations, \* argument merge_conjugations
    morphemes,          \* what self._tokenizer.tokenize(text, split_mode) returned
    tokens,             \* local tokens, the returned list once tk_pc = "done"
    result,             \* _merge_conjugations: local result
    tk_i,               \* _merge_conjugations: local i (1-based here)
    tk_j,               \* _merge_conjugations: local j (1-based here)
    merged_surface,     \* _merge_conjugations: local merged_surface
    merged_reading,     \* _merge_conjugations: local merged_reading
    merged_end,         \* _merge_conjugations: local merged_end
    tk_pc,              \* "idle", "tokenize", "merge", "while", "absorb", "done"
    \* ---- ProficiencyService._calculate_level called on two rates ----
    rate_a,             \* argument lookup_rate of the first call
    rate_b,             \* argument lookup_rate of the second call
    level_a,            \* the level the first call returned
    level_b,            \* the level the second call returned
    level_pc,           \* "idle", "call", "done"
    \* ---- ProficiencyService.record_reading_session and the database ----
    user_proficiency,   \* table user_proficiency: the rows, in id order
    prof_req,           \* the request: position, arguments, loaded object
    sessions,           \* number of record-reading requests received so far
    \* ---- DifficultyAnalysisService.analyze_text on one service instance ----
    jreadability_installed, \* environment: is the package jreadability importable
    wordfreq_installed,     \* environment: is the package wordfreq importable
    kanji_cache,            \* self._kanji_cache: grade per kanji, 0 for absent
    jreadability_available, \* self._jreadability_available: "none", "true", "false"
    wordfreq_available,     \* self._wordfreq_available: "none", "true", "false"
    df_text,                \* analyze_text: argument text
    overall,                \* analyze_text: local overall
    kanji,                  \* analyze_text: local kanji
    lexical,                \* analyze_text: local lexical
    kanji_todo,             \* _compute_kanji_difficulty: kanji the loop has not reached
    total_grade,            \* _compute_kanji_difficulty: local total_grade
    last_grade,             \* history: the last _get_kanji_grade call that asked the service
    metrics,                \* what analyze_text returned, once df_pc = "returned"
    analyses,               \* number of analyze_text calls so far
    df_pc,                  \* "idle", "overall", "kanji", "grades", "lexical", "finish",
                            \* "returned", "raised"
    \* ---- content store: ContentService over the content tables ----
    content,                \* table content: the set of its rows
    content_chunks,         \* table content_chunks: the set of its rows
    cont_call,              \* the request in progress or last finished, with its locals
    \* ---- concurrent requests on the user_proficiency table ----
    conc_req,               \* per request: position, operation, loaded row
    conc_calls,             \* number of requests received so far
    \* ---- lazily initialized shared handles ----
    handle,                 \* per initializer: the shared object, 0 for None
    lock,                   \* per lock-guarded initializer: the thread holding its lock, 0 if free
    made,                   \* history: per initializer, the objects constructed so far
    got,                    \* history: per initializer, the objects returned to callers
    thread,                 \* per thread: position, the initializer called, the value returned
    jamdict_importable,     \* whether "from jamdict import Jamdict" succeeds
    sudachipy_importable,   \* whether "from sudachipy import Dictionary" succeeds
    \* ---- download manager ----
    downloads,              \* table downloads: <<>> or <<the row of the one download>>
    download,               \* the Download object in the session of the queueing manager
    tasks,                  \* per background task of _process_download: its position
    download_tasks,         \* self._download_tasks of the queueing manager: the task
                            \* registered for the download, 0 for none
    cancel_req,             \* the cancel_download call: position, manager, loaded object
    cont_pc                 \* "idle", "create", "chunks", "tokenize", "update",
                            \* "delete_chunks", "delete", "practice", "returned",
                            \* "raised"

segVars == <<text, max_size, i, current_chunk, chunks, seg_pc>>

scoreVars == <<vocabulary, vocabulary_scores, req, started, returned>>

calcVars == <<calc_obj, calc_result, calc_pc>>

batchVars == <<dictionary_forms, looked_up_forms, form_idx, updates,
               batch_session, batch_pc>>

tokVars == <<tk_text, merge_conjugations, morphemes, tokens, result, tk_i,
             tk_j, merged_surface, merged_reading, merged_end, tk_pc>>

levelVars == <<rate_a, rate_b, level_a, level_b, level_pc>>

profVars == <<user_proficiency, prof_req, sessions>>

diffVars == <<jreadability_installed, wordfreq_installed, kanji_cache,
              jreadability_available, wordfreq_available, df_text, overall,
              kanji, lexical, kanji_todo, total_grade, last_grade, metrics,
              analyses, df_pc>>

contVars == <<content, content_chunks, cont_call, cont_pc>>

profConcVars == <<conc_req, conc_calls>>

lazyVars == <<handle, lock, made, got, thread, jamdict_importable,
              sudachipy_importable>>

dlVars == <<downloads, download, tasks, download_tasks, cancel_req>>

vars == <<segVars, scoreVars, calcVars, batchVars, tokVars, levelVars,
          profVars, diffVars, contVars, profConcVars, lazyVars, dlVars>>

\* the variables each part leaves alone
notSeg == <<scoreVars, calcVars, batchVars, tokVars, levelVars, profVars,
            diffVars, contVars, profConcVars, lazyVars, dlVars>>
notScore == <<segVars, calcVars, batchVars, tokVars, levelVars, profVars,
              diffVars, contVars, profConcVars, lazyVars, dlVars>>
notCalc == <<segVars, scoreVars, batchVars, tokVars, levelVars, profVars,
             diffVars, contVars, profConcVars, lazyVars, dlVars>>
notScoreBatch == <<segVars, calcVars, tokVars, levelVars, profVars, diffVars,
                   contVars, profConcVars, lazyVars, dlVars>>
notTok == <<segVars, scoreVars, calcVars, batchVars, levelVars, profVars,
            diffVars, contVars, profConcVars, lazyVars, dlVars>>
notLevel == <<segVars, scoreVars, calcVars, batchVars, tokVars, profVars,
              diffVars, contVars, profConcVars, lazyVars, dlVars>>
notProf == <<segVars, scoreVars, calcVars, batchVars, tokVars, levelVars,
             diffVars, contVars, profConcVars, lazyVars, dlVars>>
notDiff == <<segVars, scoreVars, calcVars, batchVars, tokVars, levelVars,
             profVars, contVars, profConcVars, lazyVars, dlVars>>
notCont == <<segVars, scoreVars, calcVars, batchVars, tokVars, levelVars,
             profVars, diffVars, profConcVars, lazyVars, dlVars>>
notProfConc == <<segVars, scoreVars, calcVars, batchVars, tokVars, levelVars,
                 diffVars, contVars, prof_req, sessions, lazyVars, dlVars>>
notLazy == <<segVars, scoreVars, calcVars, batchVars, tokVars, levelVars,
             profVars, diffVars, contVars, profConcVars, dlVars>>
notDl == <<segVars, scoreVars, calcVars, batchVars, tokVars, levelVars,
           profVars, diffVars, contVars, profConcVars, lazyVars>>

(***************************************************************************)
(* Bounds                                                                  *)
(***************************************************************************)
MaxTextLen == 5
MaxChunkSize == 3
MaxEvents == 5
MaxConcEvents == 2
MaxSeen == 10
MaxStreak == 6
MaxBatch == 3
MaxTokText == 3
MaxRateHalves == 44
MaxSessions == 3
MaxDiffText == 2
MaxAnalyses == 2
MaxChunks == 2
MaxConcCalls == 3

\* the request slots (each request has its own AsyncSession) and the
\* dictionary forms the requests name
Requests == {1, 2}
Forms == {"w1", "w2"}

\* a slot with no request in it
IdleRequest == [pc |-> "idle"]

(***************************************************************************)
(* Part 1: the segmenter                                                   *)
(***************************************************************************)
Chars == {"a", ".", " ", "\n"}

\* ContentService.SENTENCE_ENDINGS
SENTENCE_ENDINGS == {".", "\n"}

\* the characters str.strip() removes
Whitespace == {" ", "\n"}

Texts == UNION {[1..n -> Chars] : n \in 0..MaxTextLen}

RECURSIVE LStrip(_)
LStrip(s) ==
    IF s = <<>> THEN s
    ELSE IF Head(s) \in Whitespace THEN LStrip(Tail(s)) ELSE s

RECURSIVE RStrip(_)
RStrip(s) ==
    IF s = <<>> THEN s
    ELSE IF s[Len(s)] \in Whitespace THEN RStrip(SubSeq(s, 1, Len(s) - 1)) ELSE s

\* seeded fault in Strip: also strips the sentence terminators
StripPunctuation(s) ==
    LET RECURSIVE L(_)
        L(t) == IF t = <<>> THEN t
                ELSE IF Head(t) \in Whitespace \cup SENTENCE_ENDINGS
                     THEN L(Tail(t)) ELSE t
        RECURSIVE R(_)
        R(t) == IF t = <<>> THEN t
                ELSE IF t[Len(t)] \in Whitespace \cup SENTENCE_ENDINGS
                     THEN R(SubSeq(t, 1, Len(t) - 1)) ELSE t
    IN R(L(s))

\* str.strip()
Strip(s) == RStrip(LStrip(s))

\* seeded fault in AtBoundary: the size test is strict
AtBoundaryStrict(cur, char) ==
    \/ Len(cur) > max_size
    \/ (char \in SENTENCE_ENDINGS /\ 2 * Len(cur) >= max_size)

\* the condition of the if in the loop, on current_chunk after "+= char":
\* len(current_chunk) >= max_size or
\*   (is_sentence_end and len(current_chunk) >= max_size * 0.5)
AtBoundary(cur, char) ==
    \/ Len(cur) >= max_size
    \/ (char \in SENTENCE_ENDINGS /\ 2 * Len(cur) >= max_size)

\* an empty database and no request in flight (after init_db on a new file)
ScoreStart ==
    /\ vocabulary = <<>>
    /\ vocabulary_scores = <<>>
    /\ req = [r \in Requests |-> IdleRequest]
    /\ started = 0
    /\ returned = [f \in Forms |-> 0]

\* the segmenter not in use
SegIdle ==
    /\ text = <<>>
    /\ max_size = 1
    /\ i = 1
    /\ current_chunk = <<>>
    /\ chunks = <<>>
    /\ seg_pc = "done"

\* calculate_score not in use
CalcIdle ==
    /\ calc_obj = [vocabulary_id |-> 0, score |-> <<0, 1>>, times_seen |-> 0,
                   times_looked_up |-> 0, consecutive_correct |-> 0]
    /\ calc_result = <<0, 1>>
    /\ calc_pc = "idle"

\* record_batch_read not in use
BatchIdle ==
    /\ dictionary_forms = <<>>
    /\ looked_up_forms = {}
    /\ form_idx = 1
    /\ updates = <<>>
    /\ batch_session = <<>>
    /\ batch_pc = "idle"

\* the tokenizer not in use
TokIdle ==
    /\ tk_text = <<>>
    /\ merge_conjugations = FALSE
    /\ morphemes = <<>>
    /\ tokens = <<>>
    /\ result = <<>>
    /\ tk_i = 1
    /\ tk_j = 1
    /\ merged_surface = <<>>
    /\ merged_reading = <<>>
    /\ merged_end = 0
    /\ tk_pc = "idle"

\* _calculate_level not in use
LevelIdle ==
    /\ rate_a = <<0, 1>>
    /\ rate_b = <<0, 1>>
    /\ level_a = ""
    /\ level_b = ""
    /\ level_pc = "idle"

\* an empty user_proficiency table and no record-reading request
ProfStart ==
    /\ user_proficiency = <<>>
    /\ prof_req = [pc |-> "idle"]
    /\ sessions = 0

\* the two kanji of the difficulty texts
Kanji == {"k1", "k2"}

\* no _get_kanji_grade call has asked the grade service yet
NoGradeCall == [kanji |-> "", kind |-> "", grade |-> 0]

\* DifficultyMetrics before analyze_text has returned
NoMetrics ==
    [overall_difficulty |-> <<0, 1>>, kanji_difficulty |-> <<0, 1>>,
     lexical_difficulty |-> <<0, 1>>, grammar_complexity |-> <<0, 1>>,
     sentence_complexity |-> <<0, 1>>, difficulty_level |-> "",
     total_characters |-> 0, kanji_count |-> 0, unique_kanji |-> 0,
     avg_sentence_length |-> <<0, 1>>]

\* DifficultyAnalysisService(): the instance after __init__, no call yet
DiffFresh ==
    /\ kanji_cache = [k \in Kanji |-> 0]
    /\ jreadability_available = "none"
    /\ wordfreq_available = "none"
    /\ df_text = <<>>
    /\ overall = <<0, 1>>
    /\ kanji = <<0, 1>>
    /\ lexical = <<0, 1>>
    /\ kanji_todo = {}
    /\ total_grade = 0
    /\ last_grade = NoGradeCall
    /\ metrics = NoMetrics
    /\ analyses = 0
    /\ df_pc = "idle"

\* the difficulty service not in use
DiffIdle ==
    /\ jreadability_installed = FALSE
    /\ wordfreq_installed = FALSE
    /\ DiffFresh

\* no content request yet
NoContCall ==
    [op |-> "", content_id |-> 0, chunks_text |-> <<>>, pre_tokenize |-> FALSE,
     stats |-> <<0, 0>>, created |-> <<>>, k |-> 0, target |-> 0,
     exclude |-> 0, pre_content |-> {}, pre_chunks |-> {}, ret |-> "none",
     ret_content |-> 0, ret_chunk |-> 0]

\* the content tables empty and no request in progress
ContIdle ==
    /\ content = {}
    /\ content_chunks = {}
    /\ cont_call = NoContCall
    /\ cont_pc = "idle"

\* no concurrent proficiency request yet
ProfConcIdle ==
    /\ conc_req = [r \in Requests |-> IdleRequest]
    /\ conc_calls = 0

\* the threads that use the shared handles
Threads == {1, 2}

\* the lazy initializers: DictionaryService.get_instance,
\* DictionaryService._get_jamdict and routes/data.py get_tokenizer
Locked == {"get_instance", "_get_jamdict"}
LazyFns == Locked \cup {"get_tokenizer"}

\* nothing initialized, every lock free, no thread in an initializer
LazyFresh ==
    /\ handle = [f \in LazyFns |-> 0]
    /\ lock = [f \in Locked |-> 0]
    /\ made = [f \in LazyFns |-> 0]
    /\ got = [f \in LazyFns |-> {}]
    /\ thread = [t \in Threads |-> [pc |-> "idle", fn |-> "", ret |-> 0]]

\* the shared handles not in use
LazyIdle ==
    /\ LazyFresh
    /\ jamdict_importable = FALSE
    /\ sudachipy_importable = FALSE

\* _handle_download_failure: "if download.retry_count < 3"
MAX_RETRIES == 3

\* the background tasks one download can have
Tasks == 1..MAX_RETRIES

\* Download(status="pending"): the columns the manager writes
NewDownload == [status |-> "pending", retry_count |-> 0]

\* the Download object of a session: the columns, and whether it holds
\* changes the session has not committed
NewObject == [status |-> "pending", retry_count |-> 0, dirty |-> FALSE]

\* the columns of a Download object
DownloadColumns(obj) == [status |-> obj.status, retry_count |-> obj.retry_count]

NoCancel == [pc |-> "idle", manager |-> 0, obj |-> NewDownload, active |-> FALSE]

\* no download queued
DlIdle ==
    /\ downloads = <<>>
    /\ download = NewObject
    /\ tasks = [k \in Tasks |-> "none"]
    /\ download_tasks = 0
    /\ cancel_req = NoCancel

SegStart ==
    /\ text \in Texts
    /\ max_size \in 1..MaxChunkSize
    /\ i = 1
    /\ current_chunk = <<>>
    /\ chunks = <<>>
    /\ seg_pc = "entry"

\* if not text: return []
ChunkEmpty ==
    /\ seg_pc = "entry"
    /\ text = <<>>
    /\ chunks' = <<>>
    /\ seg_pc' = "done"
    /\ UNCHANGED <<text, max_size, i, current_chunk>>
    /\ UNCHANGED notSeg

\* if len(text) <= max_size: return [text]
ChunkShort ==
    /\ seg_pc = "entry"
    /\ text # <<>>
    /\ Len(text) <= max_size
    /\ chunks' = <<text>>
    /\ seg_pc' = "done"
    /\ UNCHANGED <<text, max_size, i, current_chunk>>
    /\ UNCHANGED notSeg

\* chunks = []; current_chunk = ""; i = 0
ChunkLong ==
    /\ seg_pc = "entry"
    /\ text # <<>>
    /\ Len(text) > max_size
    /\ chunks' = <<>>
    /\ current_chunk' = <<>>
    /\ i' = 1
    /\ seg_pc' = "scan"
    /\ UNCHANGED <<text, max_size>>
    /\ UNCHANGED notSeg

\* one iteration of the while loop
ScanChar ==
    /\ seg_pc = "scan"
    /\ i <= Len(text)
    /\ LET char == text[i]
           cur == Append(current_chunk, char)
       IN IF AtBoundary(cur, char)
          THEN /\ chunks' = Append(chunks, Strip(cur))
               /\ current_chunk' = <<>>
          ELSE /\ chunks' = chunks
               /\ current_chunk' = cur
    /\ i' = i + 1
    /\ UNCHANGED <<text, max_size, seg_pc>>
    /\ UNCHANGED notSeg

\* loop exit: if current_chunk.strip(): chunks.append(current_chunk.strip())
AddRemaining ==
    /\ seg_pc = "scan"
    /\ i > Len(text)
    /\ chunks' = IF Strip(current_chunk) # <<>>
                 THEN Append(chunks, Strip(current_chunk))
                 ELSE chunks
    /\ seg_pc' = "done"
    /\ UNCHANGED <<text, max_size, i, current_chunk>>
    /\ UNCHANGED notSeg

SegNext ==
    \/ ChunkEmpty
    \/ ChunkShort
    \/ ChunkLong
    \/ ScanChar
    \/ AddRemaining

SegInit == SegStart /\ ScoreStart /\ CalcIdle /\ BatchIdle /\ TokIdle /\ LevelIdle
             /\ ProfStart
             /\ DiffIdle
             /\ ContIdle
             /\ ProfConcIdle
             /\ LazyIdle
             /\ DlIdle

SpecSeg == SegInit /\ [][SegNext]_vars

\* ---- helpers of the segmenter properties ----
RECURSIVE Concat(_)
Concat(ss) == IF ss = <<>> THEN <<>> ELSE Head(ss) \o Concat(Tail(ss))

NonWhitespace(s) == SelectSeq(s, LAMBDA c : c \notin Whitespace)

\* C1: for a non-empty text and max_chunk_size >= 1 no element of the
\* returned list is the empty string.
C1_NoEmptyChunk ==
    (seg_pc = "done" /\ text # <<>>) =>
        \A k \in 1..Len(chunks) : chunks[k] # <<>>

\* C2: the chunks, concatenated in order and with whitespace removed, are
\* exactly the non-whitespace characters of text in their original order.
C2_ContentPreserved ==
    seg_pc = "done" =>
        NonWhitespace(Concat(chunks)) = NonWhitespace(text)

C2_Witness ==
    /\ seg_pc = "done"
    /\ Len(chunks) >= 2
    /\ Concat(chunks) # text
    /\ Len(NonWhitespace(text)) >= 3

\* C3: a non-empty text with len(text) <= max_chunk_size gives exactly one
\* chunk, equal to the whitespace-trimmed text.
C3_ShortIsTrimmed ==
    (seg_pc = "done" /\ text # <<>> /\ Len(text) <= max_size) =>
        chunks = <<Strip(text)>>

\* C4: for len(text) > max_chunk_size a boundary is emitted exactly when the
\* accumulated untrimmed length reaches max_chunk_size, or the current
\* character is a terminator and the accumulated length is at least
\* max_chunk_size / 2; so no chunk is longer than max_chunk_size and every
\* chunk emitted by the scan has untrimmed length max_chunk_size or ends,
\* before trimming, with a terminator.
C4_BoundaryStep ==
    (seg_pc = "scan" /\ i <= Len(text)) =>
        LET acc == Append(current_chunk, text[i])
            emitted == Len(chunks') = Len(chunks) + 1
        IN /\ Len(acc) <= max_size
           /\ emitted <=>
                 (\/ Len(acc) = max_size
                  \/ (text[i] \in {".", "\n"} /\ Len(acc) * 2 >= max_size))
           /\ emitted => /\ chunks' = Append(chunks, Strip(acc))
                         /\ current_chunk' = <<>>
           /\ ~emitted => chunks' = chunks /\ current_chunk' = acc

C4_BoundaryRule ==
    /\ [][C4_BoundaryStep]_vars
    /\ [](\A k \in 1..Len(chunks) : Len(chunks[k]) <= max_size)

C4_Witness ==
    /\ seg_pc = "done"
    /\ Len(text) > max_size
    /\ Len(chunks) >= 2
    /\ \E k \in 1..Len(chunks) :
          /\ Len(chunks[k]) >= 1
          /\ Len(chunks[k]) < max_size
          /\ chunks[k][Len(chunks[k])] = "."
    /\ \E k \in 1..Len(chunks) :
          Len(chunks[k]) = max_size /\ chunks[k][max_size] = "a"

(***************************************************************************)
(* Part 2: the mastery scorer                                              *)
(*                                                                         *)
(* A float is modelled by the exact rational it approximates, a pair       *)
(* <<numerator, denominator>> in lowest terms with denominator > 0.        *)
(*                                                                         *)
(* The database holds committed data only: a commit is one atomic step.    *)
(* Every request works through its own AsyncSession (get_session), whose   *)
(* identity map keeps the objects it has loaded: with                      *)
(* expire_on_commit=False a later SELECT of a row already loaded returns   *)
(* the loaded object without overwriting its attributes, refresh() reloads *)
(* them, and the UPDATE a commit flushes sets exactly the columns whose    *)
(* value differs from the loaded one.  A request's steps are its database  *)
(* statements: the awaits at which other requests run.                     *)
(***************************************************************************)
RECURSIVE GCD(_, _)
GCD(a, b) == IF b = 0 THEN a ELSE GCD(b, a % b)

Abs(n) == IF n < 0 THEN -n ELSE n

\* the rational n/d, d > 0, in lowest terms
Rat(n, d) == LET g == GCD(Abs(n), d) IN <<n \div g, d \div g>>

Zero == <<0, 1>>
One == <<1, 1>>

\* a <= b for rationals with positive denominators
RatLeq(a, b) == a[1] * b[2] <= b[1] * a[2]

\* max(0.0, min(1.0, x))
Clamp01(x) == IF RatLeq(x, Zero) THEN Zero ELSE IF RatLeq(One, x) THEN One ELSE x

Min(a, b) == IF a <= b THEN a ELSE b

\* ScoringService.CONSECUTIVE_BONUS = 0.02 and MAX_CONSECUTIVE_BONUS = 0.10,
\* in hundredths
CONSECUTIVE_BONUS == 2
MAX_CONSECUTIVE_BONUS == 10

\* seeded fault in calculate_score: the bonus is not capped
calculate_score_uncapped(score_obj) ==
    IF score_obj.times_seen = 0 THEN Zero
    ELSE LET seen == score_obj.times_seen
             correct == seen - score_obj.times_looked_up
             bonus == score_obj.consecutive_correct * CONSECUTIVE_BONUS
         IN Clamp01(Rat(7 * 100 * correct + 3 * (100 * correct + bonus * seen),
                        1000 * seen))

\* seeded fault in calculate_score: the final clamp is missing
calculate_score_unclamped(score_obj) ==
    IF score_obj.times_seen = 0 THEN Zero
    ELSE LET seen == score_obj.times_seen
             correct == seen - score_obj.times_looked_up
             bonus == Min(score_obj.consecutive_correct * CONSECUTIVE_BONUS,
                          MAX_CONSECUTIVE_BONUS)
         IN Rat(7 * 100 * correct + 3 * (100 * correct + bonus * seen),
                1000 * seen)

\* ScoringService.calculate_score:
\*   base_score = 1 - times_looked_up / times_seen        = correct / seen
\*   consecutive_bonus = min(consecutive_correct * 0.02, 0.10) = bonus / 100
\*   score = base_score * 0.7 + (base_score + consecutive_bonus) * 0.3
\*         = (700 * correct + 3 * (100 * correct + bonus * seen)) / (1000 * seen)
calculate_score(score_obj) ==
    IF score_obj.times_seen = 0 THEN Zero
    ELSE LET seen == score_obj.times_seen
             correct == seen - score_obj.times_looked_up
             bonus == Min(score_obj.consecutive_correct * CONSECUTIVE_BONUS,
                          MAX_CONSECUTIVE_BONUS)
         IN Clamp01(Rat(7 * 100 * correct + 3 * (100 * correct + bonus * seen),
                        1000 * seen))

\* VocabularyScore(vocabulary_id=v): the column defaults
NewVocabularyScore(v) ==
    [vocabulary_id |-> v, score |-> Zero, times_seen |-> 0,
     times_looked_up |-> 0, consecutive_correct |-> 0]

Columns == {"vocabulary_id", "score", "times_seen", "times_looked_up",
            "consecutive_correct"}

\* select(Vocabulary).where(dictionary_form == f) ... .first(): the id of the
\* first matching row, 0 for None
FirstVocabulary(f) ==
    LET hits == {k \in 1..Len(vocabulary) : vocabulary[k] = f}
    IN IF hits = {} THEN 0 ELSE CHOOSE k \in hits : \A j \in hits : k <= j

\* select(VocabularyScore).where(vocabulary_id == v) ... .first()
FirstScore(v) ==
    LET hits == {k \in 1..Len(vocabulary_scores) :
                    vocabulary_scores[k].vocabulary_id = v}
    IN IF hits = {} THEN 0 ELSE CHOOSE k \in hits : \A j \in hits : k <= j

\* the session's identity map m with the object of row k set to obj
Loaded(m, k, obj) ==
    [j \in DOMAIN m \cup {k} |-> IF j = k THEN obj ELSE m[j]]

\* the UPDATE a flush emits for an object loaded as `was` and now `now`:
\* the row with the columns that differ set
Flushed(row, was, now) ==
    [c \in Columns |-> IF now[c] # was[c] THEN now[c] ELSE row[c]]

\* seeded fault in AfterLookup: the streak is not reset
AfterLookupKeepsStreak(obj) ==
    [obj EXCEPT !.times_looked_up = @ + 1, !.times_seen = @ + 1]

\* increment_lookup's assignments
AfterLookup(obj) ==
    [obj EXCEPT !.times_looked_up = @ + 1, !.times_seen = @ + 1,
                !.consecutive_correct = 0]

\* seeded fault in AfterCorrect: a read counts as a lookup too
AfterCorrectCountsLookup(obj) ==
    [obj EXCEPT !.times_seen = @ + 1, !.times_looked_up = @ + 1,
                !.consecutive_correct = @ + 1]

\* increment_correct's assignments
AfterCorrect(obj) ==
    [obj EXCEPT !.times_seen = @ + 1, !.consecutive_correct = @ + 1]

\* the values dataclass ScoreUpdate is built from
ScoreUpdate(v, old, obj) ==
    [vocabulary_id |-> v, old_score |-> old, new_score |-> obj.score,
     times_seen |-> obj.times_seen, times_looked_up |-> obj.times_looked_up,
     consecutive_correct |-> obj.consecutive_correct]

\* POST /progress/record-lookup or a record_read_without_lookup call arrives:
\* a new session, nothing loaded.  The request takes the lowest free slot;
\* at most `limit` requests are received in a run.
Call(r, limit) ==
    /\ req[r].pc = "idle"
    /\ \A j \in Requests : j < r => req[j].pc # "idle"
    /\ started < limit
    /\ \E k \in {"lookup", "read"}, f \in Forms :
         req' = [req EXCEPT ![r] =
                   [pc |-> "find_vocab", kind |-> k, dictionary_form |-> f,
                    vocab |-> 0, session |-> <<>>, score_obj |-> 0,
                    site |-> 0, old_score |-> Zero, new_score |-> Zero,
                    pre_vocabulary |-> vocabulary,
                    pre_scores |-> vocabulary_scores]]
    /\ started' = started + 1
    /\ UNCHANGED <<vocabulary, vocabulary_scores, returned>>
    /\ UNCHANGED notScore

\* vocab = await self._vocab_repo.get_by_dictionary_form(dictionary_form)
FindVocab(r) ==
    /\ req[r].pc = "find_vocab"
    /\ LET v == FirstVocabulary(req[r].dictionary_form)
       IN req' = [req EXCEPT ![r].vocab = v,
                             ![r].site = 1,
                             ![r].pc = IF v = 0 THEN "create_vocab"
                                       ELSE "goc_select"]
    /\ UNCHANGED <<vocabulary, vocabulary_scores, started, returned>>
    /\ UNCHANGED notScore

\* vocab = await self._vocab_repo.create(Vocabulary(dictionary_form=...)):
\* INSERT and commit (the refresh after it reads back the same row)
CreateVocab(r) ==
    /\ req[r].pc = "create_vocab"
    /\ vocabulary' = Append(vocabulary, req[r].dictionary_form)
    /\ req' = [req EXCEPT ![r].vocab = Len(vocabulary) + 1,
                          ![r].pc = "goc_select"]
    /\ UNCHANGED <<vocabulary_scores, started, returned>>
    /\ UNCHANGED notScore

\* where a request goes on when get_or_create returns: site 1 is the call in
\* record_lookup / record_read_without_lookup (then old_score is read and
\* increment_* is entered), site 2 the call in increment_lookup /
\* increment_correct, site 3 the call in update_score
AfterGetOrCreate(q, k, m) ==
    IF q.site = 1
    THEN [q EXCEPT !.session = m, !.score_obj = k, !.old_score = m[k].score,
                   !.site = 2, !.pc = "goc_select"]
    ELSE IF q.site = 2
    THEN [q EXCEPT !.session = m, !.score_obj = k, !.pc = "inc_commit"]
    ELSE [q EXCEPT !.session = m, !.score_obj = k, !.pc = "upd_commit"]

\* get_or_create: score = await self.get_by_vocabulary_id(vocabulary_id)
GocSelect(r) ==
    /\ req[r].pc = "goc_select"
    /\ LET q == req[r]
           k == FirstScore(q.vocab)
       IN IF k = 0
          THEN req' = [req EXCEPT ![r].pc = "goc_insert"]
          ELSE LET m == IF k \in DOMAIN q.session THEN q.session
                        ELSE Loaded(q.session, k, vocabulary_scores[k])
               IN req' = [req EXCEPT ![r] = AfterGetOrCreate(q, k, m)]
    /\ UNCHANGED <<vocabulary, vocabulary_scores, started, returned>>
    /\ UNCHANGED notScore

\* get_or_create: session.add(VocabularyScore(...)); await session.commit()
GocInsert(r) ==
    /\ req[r].pc = "goc_insert"
    /\ LET k == Len(vocabulary_scores) + 1
           obj == NewVocabularyScore(req[r].vocab)
       IN /\ vocabulary_scores' = Append(vocabulary_scores, obj)
          /\ req' = [req EXCEPT ![r].session = Loaded(@, k, obj),
                                ![r].score_obj = k,
                                ![r].pc = "goc_refresh"]
    /\ UNCHANGED <<vocabulary, started, returned>>
    /\ UNCHANGED notScore

\* get_or_create: await session.refresh(score); return score
GocRefresh(r) ==
    /\ req[r].pc = "goc_refresh"
    /\ LET q == req[r]
           k == q.score_obj
           m == Loaded(q.session, k, vocabulary_scores[k])
       IN req' = [req EXCEPT ![r] = AfterGetOrCreate(q, k, m)]
    /\ UNCHANGED <<vocabulary, vocabulary_scores, started, returned>>
    /\ UNCHANGED notScore

\* seeded fault in Incremented: a lookup does not count as seen
IncrementedLookupOnly(kind, obj) ==
    IF kind = "lookup"
    THEN [obj EXCEPT !.times_looked_up = @ + 1, !.consecutive_correct = 0]
    ELSE AfterCorrect(obj)

\* the assignments of increment_lookup (a lookup) or increment_correct (a read)
Incremented(kind, obj) ==
    IF kind = "lookup" THEN AfterLookup(obj) ELSE AfterCorrect(obj)

\* increment_lookup / increment_correct: the assignments, session.add(score),
\* await session.commit()
IncCommit(r) ==
    /\ req[r].pc = "inc_commit"
    /\ LET q == req[r]
           k == q.score_obj
           was == q.session[k]
           now == Incremented(q.kind, was)
       IN /\ vocabulary_scores' =
                [vocabulary_scores EXCEPT ![k] = Flushed(@, was, now)]
          /\ req' = [req EXCEPT ![r].session = Loaded(@, k, now),
                                ![r].pc = "inc_refresh"]
    /\ UNCHANGED <<vocabulary, started, returned>>
    /\ UNCHANGED notScore

\* increment_*: await session.refresh(score); return score; then, back in
\* record_*, new_score = self.calculate_score(score_obj) and update_score
\* is entered
IncRefresh(r) ==
    /\ req[r].pc = "inc_refresh"
    /\ LET q == req[r]
           k == q.score_obj
           obj == vocabulary_scores[k]
       IN req' = [req EXCEPT ![r].session = Loaded(@, k, obj),
                             ![r].new_score = calculate_score(obj),
                             ![r].site = 3,
                             ![r].pc = "goc_select"]
    /\ UNCHANGED <<vocabulary, vocabulary_scores, started, returned>>
    /\ UNCHANGED notScore

\* update_score: score_obj.score = max(0.0, min(1.0, new_score));
\* session.add(score_obj); await session.commit()
UpdCommit(r) ==
    /\ req[r].pc = "upd_commit"
    /\ LET q == req[r]
           k == q.score_obj
           was == q.session[k]
           now == [was EXCEPT !.score = Clamp01(q.new_score)]
       IN /\ vocabulary_scores' =
                [vocabulary_scores EXCEPT ![k] = Flushed(@, was, now)]
          /\ req' = [req EXCEPT ![r].session = Loaded(@, k, now),
                                ![r].pc = "upd_refresh"]
    /\ UNCHANGED <<vocabulary, started, returned>>
    /\ UNCHANGED notScore

\* update_score: await session.refresh(score_obj); return score_obj; then
\* record_* builds the ScoreUpdate it returns
UpdRefresh(r) ==
    /\ req[r].pc = "upd_refresh"
    /\ LET q == req[r]
           k == q.score_obj
           obj == vocabulary_scores[k]
       IN req' = [req EXCEPT ![r] =
                    [pc |-> "returned", kind |-> q.kind,
                     dictionary_form |-> q.dictionary_form,
                     pre_vocabulary |-> q.pre_vocabulary,
                     pre_scores |-> q.pre_scores,
                     session |-> Loaded(q.session, k, obj),
                     ret |-> ScoreUpdate(q.vocab, q.old_score, obj)]]
    /\ UNCHANGED <<vocabulary, vocabulary_scores, started, returned>>
    /\ UNCHANGED notScore

\* the route sends the response and the session closes
Respond(r) ==
    /\ req[r].pc = "returned"
    /\ returned' = [returned EXCEPT ![req[r].dictionary_form] = @ + 1]
    /\ req' = [req EXCEPT ![r] = IdleRequest]
    /\ UNCHANGED <<vocabulary, vocabulary_scores, started>>
    /\ UNCHANGED notScore

\* an await of the request raises (a database error such as "database is
\* locked", or the request is cancelled): the handler is left, what it has
\* committed stays
Abort(r) ==
    /\ req[r].pc \notin {"idle", "returned"}
    /\ req' = [req EXCEPT ![r] = IdleRequest]
    /\ UNCHANGED <<vocabulary, vocabulary_scores, started, returned>>
    /\ UNCHANGED notScore

ScoreInit == ScoreStart /\ SegIdle /\ CalcIdle /\ BatchIdle /\ TokIdle /\ LevelIdle
             /\ ProfStart
             /\ DiffIdle
             /\ ContIdle
             /\ ProfConcIdle
             /\ LazyIdle
             /\ DlIdle

\* record events handled one at a time
ScoreNext ==
    \E r \in {1} :
        \/ Call(r, MaxEvents)
        \/ FindVocab(r)
        \/ CreateVocab(r)
        \/ GocSelect(r)
        \/ GocInsert(r)
        \/ GocRefresh(r)
        \/ IncCommit(r)
        \/ IncRefresh(r)
        \/ UpdCommit(r)
        \/ UpdRefresh(r)
        \/ Respond(r)
        \/ Abort(r)

SpecScore == ScoreInit /\ [][ScoreNext]_vars

\* record events of concurrent requests
ScoreConcNext ==
    \E r \in Requests :
        \/ Call(r, MaxConcEvents)
        \/ FindVocab(r)
        \/ CreateVocab(r)
        \/ GocSelect(r)
        \/ GocInsert(r)
        \/ GocRefresh(r)
        \/ IncCommit(r)
        \/ IncRefresh(r)
        \/ UpdCommit(r)
        \/ UpdRefresh(r)
        \/ Respond(r)
        \/ Abort(r)

SpecScoreConc == ScoreInit /\ [][ScoreConcNext]_vars

\* ---- helpers of the scorer properties ----
\* the score record of dictionary form f in the tables voc, scores: the
\* first score row of the first vocabulary row of f, the column defaults
\* when there is none yet
Item(voc, scores, f) ==
    LET vs == {k \in 1..Len(voc) : voc[k] = f}
        v == IF vs = {} THEN 0 ELSE CHOOSE k \in vs : \A j \in vs : k <= j
        ks == {k \in 1..Len(scores) : scores[k].vocabulary_id = v}
    IN IF ks = {} THEN NewVocabularyScore(v)
       ELSE scores[CHOOSE k \in ks : \A j \in ks : k <= j]

InUnit(x) == RatLeq(Zero, x) /\ RatLeq(x, One)

AllIdle == \A r \in Requests : req[r].pc = "idle"

RECURSIVE SumOver(_, _)
SumOver(f, S) ==
    IF S = {} THEN 0
    ELSE LET x == CHOOSE y \in S : TRUE IN f[x] + SumOver(f, S \ {x})

\* no dictionary form has two vocabulary rows, no vocabulary two score rows
NoDuplicateRows ==
    /\ \A j, k \in 1..Len(vocabulary) : vocabulary[j] = vocabulary[k] => j = k
    /\ \A j, k \in 1..Len(vocabulary_scores) :
          vocabulary_scores[j].vocabulary_id = vocabulary_scores[k].vocabulary_id
              => j = k

\* C5: with record events applied one after the other from a new score
\* record, times_looked_up <= times_seen holds after each event (and in
\* between).
C5_LookupsAtMostSeen ==
    \A k \in 1..Len(vocabulary_scores) :
        vocabulary_scores[k].times_looked_up <= vocabulary_scores[k].times_seen

C5_Witness ==
    \E k \in 1..Len(vocabulary_scores) :
        /\ vocabulary_scores[k].times_looked_up >= 2
        /\ vocabulary_scores[k].times_seen > vocabulary_scores[k].times_looked_up

\* C6: calculate_score is in [0,1] for all counters with
\* 0 <= times_looked_up <= times_seen and consecutive_correct >= 0, is 0 for
\* times_seen = 0, and every stored score is in [0,1].
C6_ScoreInUnit ==
    /\ \A k \in 1..Len(vocabulary_scores) :
          /\ InUnit(vocabulary_scores[k].score)
          /\ InUnit(calculate_score(vocabulary_scores[k]))
          /\ vocabulary_scores[k].times_seen = 0
                => calculate_score(vocabulary_scores[k]) = Zero
    /\ \A r \in Requests :
          req[r].pc = "returned" =>
              InUnit(req[r].ret.new_score) /\ InUnit(req[r].ret.old_score)
    /\ AllIdle =>
          \A looked \in 0..started, cc \in 0..(MaxEvents + 1) :
              LET obj == [NewVocabularyScore(1) EXCEPT
                             !.times_seen = started, !.times_looked_up = looked,
                             !.consecutive_correct = cc]
              IN /\ InUnit(calculate_score(obj))
                 /\ started = 0 => calculate_score(obj) = Zero

\* a stored score of exactly 1 that the clamp produced, and a stored score
\* strictly between 0 and 1
C6_Witness ==
    /\ \E k \in 1..Len(vocabulary_scores) :
          /\ vocabulary_scores[k].score = One
          /\ vocabulary_scores[k].consecutive_correct >= 1
          /\ calculate_score_unclamped(vocabulary_scores[k]) # One
    /\ \E k \in 1..Len(vocabulary_scores) :
          /\ vocabulary_scores[k].score # One
          /\ vocabulary_scores[k].score # Zero

\* C7: two concurrent record events on the same vocabulary item do not
\* interleave partially, so no increment is lost: once every request
\* received has returned, an item's times_seen is the number of events
\* recorded for it.
C7_NoLostUpdate ==
    (AllIdle /\ SumOver(returned, Forms) = started /\ NoDuplicateRows) =>
        \A f \in Forms :
            Item(vocabulary, vocabulary_scores, f).times_seen = returned[f]

\* C8: in every committed state the stored score of an item is
\* calculate_score of its stored counters.
C8_ScoreDerived ==
    \A k \in 1..Len(vocabulary_scores) :
        vocabulary_scores[k].score = calculate_score(vocabulary_scores[k])

\* C9: record_lookup raises times_seen and times_looked_up by exactly 1 and
\* sets consecutive_correct to 0, for an existing item and for one first
\* encountered; the ScoreUpdate it returns carries these counters.
C9_LookupEffect ==
    \A r \in Requests :
        (req[r].pc = "returned" /\ req[r].kind = "lookup") =>
            LET before == Item(req[r].pre_vocabulary, req[r].pre_scores,
                               req[r].dictionary_form)
                after == Item(vocabulary, vocabulary_scores,
                              req[r].dictionary_form)
            IN /\ after.times_seen = before.times_seen + 1
               /\ after.times_looked_up = before.times_looked_up + 1
               /\ after.consecutive_correct = 0
               /\ req[r].ret.times_seen = after.times_seen
               /\ req[r].ret.times_looked_up = after.times_looked_up
               /\ req[r].ret.consecutive_correct = 0

C9_Witness ==
    \E r \in Requests :
        /\ req[r].pc = "returned"
        /\ req[r].kind = "lookup"
        /\ Item(req[r].pre_vocabulary, req[r].pre_scores,
                req[r].dictionary_form).consecutive_correct >= 2
        /\ \E f \in Forms : Item(vocabulary, vocabulary_scores, f).times_seen = 0

\* C10: record_read_without_lookup raises times_seen and consecutive_correct
\* by exactly 1, leaves times_looked_up unchanged, and changes no other
\* item's counters or score.
C10_ReadEffect ==
    \A r \in Requests :
        (req[r].pc = "returned" /\ req[r].kind = "read") =>
            LET before == Item(req[r].pre_vocabulary, req[r].pre_scores,
                               req[r].dictionary_form)
                after == Item(vocabulary, vocabulary_scores,
                              req[r].dictionary_form)
            IN /\ after.times_seen = before.times_seen + 1
               /\ after.consecutive_correct = before.consecutive_correct + 1
               /\ after.times_looked_up = before.times_looked_up
               /\ \A k \in 1..Len(req[r].pre_scores) :
                     req[r].pre_scores[k].vocabulary_id # req[r].ret.vocabulary_id
                         => vocabulary_scores[k] = req[r].pre_scores[k]
               /\ \A k \in 1..Len(vocabulary_scores) :
                     k > Len(req[r].pre_scores)
                         => vocabulary_scores[k].vocabulary_id
                                = req[r].ret.vocabulary_id
               /\ \A f \in Forms \ {req[r].dictionary_form} :
                     Item(vocabulary, vocabulary_scores, f)
                         = Item(req[r].pre_vocabulary, req[r].pre_scores, f)

C10_Witness ==
    \E r \in Requests :
        /\ req[r].pc = "returned"
        /\ req[r].kind = "read"
        /\ Item(req[r].pre_vocabulary, req[r].pre_scores,
                req[r].dictionary_form).times_looked_up >= 1
        /\ \E f \in Forms \ {req[r].dictionary_form} :
              Item(vocabulary, vocabulary_scores, f).times_looked_up >= 1

(***************************************************************************)
(* Part 3: calculate_score as a function of the counters                   *)
(***************************************************************************)
\* score records with 0 <= times_looked_up <= times_seen <= MaxSeen and
\* 0 <= consecutive_correct <= MaxStreak
CounterObjs ==
    {[NewVocabularyScore(1) EXCEPT !.times_seen = seen,
                                   !.times_looked_up = looked,
                                   !.consecutive_correct = cc] :
        seen \in 0..MaxSeen, looked \in 0..MaxSeen, cc \in 0..MaxStreak}

CalcStart ==
    /\ calc_obj \in {o \in CounterObjs : o.times_looked_up <= o.times_seen}
    /\ calc_result = Zero
    /\ calc_pc = "call"

\* new_score = self.calculate_score(score_obj)
Calculate ==
    /\ calc_pc = "call"
    /\ calc_result' = calculate_score(calc_obj)
    /\ calc_pc' = "done"
    /\ UNCHANGED calc_obj
    /\ UNCHANGED notCalc

CalcInit == CalcStart /\ SegIdle /\ ScoreStart /\ BatchIdle /\ TokIdle /\ LevelIdle
             /\ ProfStart
             /\ DiffIdle
             /\ ContIdle
             /\ ProfConcIdle
             /\ LazyIdle
             /\ DlIdle

CalcNext == Calculate

SpecCalc == CalcInit /\ [][CalcNext]_vars

\* ---- rational arithmetic of the properties ----
RatAdd(a, b) == Rat(a[1] * b[2] + b[1] * a[2], a[2] * b[2])

RatSub(a, b) == Rat(a[1] * b[2] - b[1] * a[2], a[2] * b[2])

RatMul(a, b) == Rat(a[1] * b[1], a[2] * b[2])

RatMin(a, b) == IF RatLeq(a, b) THEN a ELSE b

RatMax(a, b) == IF RatLeq(a, b) THEN b ELSE a

\* C11: for times_seen > 0 calculate_score is
\* clamp(base*0.7 + (base+bonus)*0.3, 0, 1) with
\* base = 1 - times_looked_up/times_seen and
\* bonus = min(consecutive_correct*0.02, 0.10); counters (10, 2, 3) give 0.818.
C11_ScoreFormula ==
    (calc_pc = "done" /\ calc_obj.times_seen > 0) =>
        LET base == RatSub(One, Rat(calc_obj.times_looked_up,
                                    calc_obj.times_seen))
            bonus == RatMin(Rat(calc_obj.consecutive_correct * 2, 100),
                            Rat(10, 100))
            sum == RatAdd(RatMul(base, Rat(7, 10)),
                          RatMul(RatAdd(base, bonus), Rat(3, 10)))
        IN /\ calc_result = RatMax(Zero, RatMin(One, sum))
           /\ (/\ calc_obj.times_seen = 10
               /\ calc_obj.times_looked_up = 2
               /\ calc_obj.consecutive_correct = 3) =>
                  calc_result = Rat(818, 1000)

C11_Witness ==
    /\ calc_pc = "done"
    /\ calc_obj.times_seen = 10
    /\ calc_obj.times_looked_up = 2
    /\ calc_obj.consecutive_correct = 3
    /\ calc_result = <<409, 500>>

(***************************************************************************)
(* Part 4: batch recording, ScoringService.record_batch_read behind        *)
(*         POST /progress/record-read                                      *)
(*                                                                         *)
(* One request: its events run one after the other through the request's   *)
(* one session, each event by the steps of Part 2.                         *)
(***************************************************************************)
\* a dictionary form that a request may name in looked_up_forms only
LookedUpOnly == "w3"

\* the lists over S of length at most n
SeqsUpTo(S, n) == UNION {[1..m -> S] : m \in 0..n}

\* set(request.looked_up_forms)
ToSet(l) == {l[k] : k \in 1..Len(l)}

\* seeded fault in EventKind: membership in looked_up_forms is not consulted
EventKindAlwaysRead(form, looked) == "read"

\* record_batch_read: `if form in looked_up_forms` picks record_lookup,
\* otherwise record_read_without_lookup
EventKind(form, looked) == IF form \in looked THEN "lookup" ELSE "read"

\* POST /progress/record-read arrives on an empty database
BatchStart ==
    /\ dictionary_forms \in SeqsUpTo(Forms, MaxBatch)
    /\ \E l \in SeqsUpTo(Forms \cup {LookedUpOnly}, 2) :
          looked_up_forms = ToSet(l)
    /\ form_idx = 1
    /\ updates = <<>>
    /\ batch_session = <<>>
    /\ batch_pc = "loop"

\* for form in dictionary_forms: ... update = await self.record_lookup(form)
\* or update = await self.record_read_without_lookup(form)
BatchEvent(r) ==
    /\ batch_pc = "loop"
    /\ form_idx <= Len(dictionary_forms)
    /\ req[r].pc = "idle"
    /\ LET form == dictionary_forms[form_idx]
       IN req' = [req EXCEPT ![r] =
                    [pc |-> "find_vocab",
                     kind |-> EventKind(form, looked_up_forms),
                     dictionary_form |-> form,
                     vocab |-> 0, session |-> batch_session, score_obj |-> 0,
                     site |-> 0, old_score |-> Zero, new_score |-> Zero,
                     pre_vocabulary |-> vocabulary,
                     pre_scores |-> vocabulary_scores]]
    /\ started' = started + 1
    /\ batch_pc' = "event"
    /\ UNCHANGED <<vocabulary, vocabulary_scores, returned>>
    /\ UNCHANGED <<dictionary_forms, looked_up_forms, form_idx, updates,
                   batch_session>>
    /\ UNCHANGED notScoreBatch

\* if update: updates.append(update) -- a ScoreUpdate is always true
BatchCollect(r) ==
    /\ batch_pc = "event"
    /\ req[r].pc = "returned"
    /\ updates' = Append(updates, req[r].ret)
    /\ form_idx' = form_idx + 1
    /\ batch_session' = req[r].session
    /\ batch_pc' = "loop"
    /\ returned' = [returned EXCEPT ![req[r].dictionary_form] = @ + 1]
    /\ req' = [req EXCEPT ![r] = IdleRequest]
    /\ UNCHANGED <<vocabulary, vocabulary_scores, started>>
    /\ UNCHANGED <<dictionary_forms, looked_up_forms>>
    /\ UNCHANGED notScoreBatch

\* return updates; the route copies each into a ScoreUpdateResponse
BatchReturn ==
    /\ batch_pc = "loop"
    /\ form_idx > Len(dictionary_forms)
    /\ batch_pc' = "done"
    /\ UNCHANGED <<dictionary_forms, looked_up_forms, form_idx, updates,
                   batch_session>>
    /\ UNCHANGED scoreVars
    /\ UNCHANGED notScoreBatch

\* an await of the current event raises: record_batch_read is left, what
\* the events have committed stays
BatchAbort(r) ==
    /\ batch_pc = "event"
    /\ req[r].pc \notin {"idle", "returned"}
    /\ req' = [req EXCEPT ![r] = IdleRequest]
    /\ batch_pc' = "aborted"
    /\ UNCHANGED <<vocabulary, vocabulary_scores, started, returned>>
    /\ UNCHANGED <<dictionary_forms, looked_up_forms, form_idx, updates,
                   batch_session>>
    /\ UNCHANGED notScoreBatch

BatchInit == BatchStart /\ ScoreStart /\ SegIdle /\ CalcIdle /\ TokIdle /\ LevelIdle
             /\ ProfStart
             /\ DiffIdle
             /\ ContIdle
             /\ ProfConcIdle
             /\ LazyIdle
             /\ DlIdle

BatchNext ==
    \E r \in {1} :
        \/ BatchEvent(r)
        \/ FindVocab(r)
        \/ CreateVocab(r)
        \/ GocSelect(r)
        \/ GocInsert(r)
        \/ GocRefresh(r)
        \/ IncCommit(r)
        \/ IncRefresh(r)
        \/ UpdCommit(r)
        \/ UpdRefresh(r)
        \/ BatchCollect(r)
        \/ BatchReturn
        \/ BatchAbort(r)

SpecBatch == BatchInit /\ [][BatchNext]_vars

\* ---- helpers of the batch properties ----
\* the number of occurrences of f among the first n elements of l
Count(l, f, n) == Cardinality({j \in 1..n : l[j] = f})

\* the distinct forms of l in the order of their first occurrence
RECURSIVE FirstOccurrences(_)
FirstOccurrences(l) ==
    IF l = <<>> THEN <<>>
    ELSE LET front == SubSeq(l, 1, Len(l) - 1)
             last == l[Len(l)]
         IN IF Count(front, last, Len(front)) > 0
            THEN FirstOccurrences(front)
            ELSE Append(FirstOccurrences(front), last)

\* the row id dictionary form f has in the vocabulary table of a batch that
\* started on an empty database
VocabularyOf(f) ==
    CHOOSE k \in 1..Len(FirstOccurrences(dictionary_forms)) :
        FirstOccurrences(dictionary_forms)[k] = f

\* the ScoreUpdate the k-th supplied form must produce: n earlier events of
\* the same kind on the same form, then this one
ExpectedUpdate(k) ==
    LET form == dictionary_forms[k]
        lookup == form \in looked_up_forms
        n == Count(dictionary_forms, form, k)
        counters(m) == [NewVocabularyScore(VocabularyOf(form)) EXCEPT
                           !.times_seen = m,
                           !.times_looked_up = IF lookup THEN m ELSE 0,
                           !.consecutive_correct = IF lookup THEN 0 ELSE m]
    IN [vocabulary_id |-> VocabularyOf(form),
        old_score |-> calculate_score(counters(n - 1)),
        new_score |-> calculate_score(counters(n)),
        times_seen |-> n,
        times_looked_up |-> IF lookup THEN n ELSE 0,
        consecutive_correct |-> IF lookup THEN 0 ELSE n]

\* C12: record_batch_read routes each supplied form to record_lookup if it
\* is in looked_up_forms and to record_read_without_lookup otherwise,
\* applies exactly one event per supplied form, returns one score update
\* per event in input order, creates a vocabulary entry the first time a
\* form is met, and a form that is only in looked_up_forms causes no event.
C12_BatchRouting ==
    \* the updates collected so far are those of the forms handled so far
    /\ Len(updates) = form_idx - 1
    /\ \A k \in 1..Len(updates) : updates[k] = ExpectedUpdate(k)
    \* the event in flight is the one of the current form, of the kind its
    \* membership in looked_up_forms picks
    /\ batch_pc = "event" =>
          /\ req[1].dictionary_form = dictionary_forms[form_idx]
          /\ req[1].kind = "lookup" <=> req[1].dictionary_form \in looked_up_forms
    \* vocabulary entries exist for exactly the forms met so far
    /\ \E n \in {form_idx - 1, form_idx} \cap 0..Len(dictionary_forms) :
          vocabulary = FirstOccurrences(SubSeq(dictionary_forms, 1, n))
    /\ batch_pc = "done" =>
          /\ Len(updates) = Len(dictionary_forms)
          /\ started = Len(dictionary_forms)
          /\ vocabulary = FirstOccurrences(dictionary_forms)
          /\ LookedUpOnly \notin ToSet(vocabulary)
          /\ Len(vocabulary_scores) = Len(vocabulary)
          /\ \A f \in Forms :
                LET n == Count(dictionary_forms, f, Len(dictionary_forms))
                    obj == Item(vocabulary, vocabulary_scores, f)
                IN /\ returned[f] = n
                   /\ obj.times_seen = n
                   /\ obj.times_looked_up = IF f \in looked_up_forms THEN n ELSE 0

\* a finished batch of three forms, one of them repeated, one looked up and
\* one not, with a form named in looked_up_forms only
C12_Witness ==
    /\ batch_pc = "done"
    /\ Len(updates) = 3
    /\ dictionary_forms = <<"w1", "w2", "w1">>
    /\ looked_up_forms = {"w1", LookedUpOnly}
    /\ updates[3].times_looked_up = 2
    /\ updates[2].times_looked_up = 0

(***************************************************************************)
(* Part 5: the morphological normalizer, TokenizerService.tokenize and     *)
(*         _merge_conjugations (app/services/tokenizer_service.py)         *)
(*                                                                         *)
(* The analyzer (SudachiPy) is outside the repository: its answer is an    *)
(* input.  A MorphemeList tiles the text it was given: the morphemes are   *)
(* non-empty, begin() and end() are offsets into the text, each morpheme   *)
(* starts where the one before it ends, and surface() is the slice.  The   *)
(* part of speech of each morpheme is arbitrary.                           *)
(*                                                                         *)
(* Characters of a tokenizer text: "t" is hiragana te, "d" is hiragana de, *)
(* "x" any other character.  Short parts of speech: "verb" is doushi,      *)
(* "adjective" keiyoushi, "auxiliary" jodoushi, "particle" joshi, "noun"   *)
(* any other.                                                              *)
(***************************************************************************)
TkChars == {"t", "d", "x"}

TkTexts == SeqsUpTo(TkChars, MaxTokText)

POS == {"verb", "adjective", "auxiliary", "particle", "noun"}

\* the elements of a set of integers in ascending order
RECURSIVE Ascending(_)
Ascending(S) ==
    IF S = {} THEN <<>>
    ELSE LET m == CHOOSE x \in S : \A y \in S : y <= x
         IN Append(Ascending(S \ {m}), m)

\* the reading of a character
Kana(c) == <<"kana", c>>

\* a morpheme of text t from offset b to offset e with part of speech p
Morpheme(t, b, e, p) ==
    [surface |-> SubSeq(t, b + 1, e),
     dictionary_form |-> <<"lemma", b, p>>,
     reading_form |-> [k \in 1..(e - b) |-> Kana(t[b + k])],
     part_of_speech |-> <<p>>,
     begin |-> b,
     end |-> e]

\* the answers self._tokenizer.tokenize(t, split_mode) can give
Analyses(t) ==
    IF t = <<>> THEN {<<>>}
    ELSE UNION {
           LET e == Ascending(cuts \cup {Len(t)})
           IN {[k \in 1..Len(e) |->
                   Morpheme(t, IF k = 1 THEN 0 ELSE e[k - 1], e[k], p[k])] :
                 p \in [1..Len(e) -> POS]} :
           cuts \in SUBSET (1..(Len(t) - 1))}

\* Token(surface=m.surface(), ..., pos_short=pos[0] if pos else "", ...)
TokenOf(m) ==
    [surface |-> m.surface,
     dictionary_form |-> m.dictionary_form,
     reading |-> m.reading_form,
     pos |-> m.part_of_speech,
     pos_short |-> IF Len(m.part_of_speech) > 0 THEN m.part_of_speech[1] ELSE "",
     start |-> m.begin,
     end |-> m.end,
     is_known |-> FALSE]

\* seeded fault in ShouldMerge: the flag is ignored
ShouldMergeAlways(flag) == TRUE

\* tokenize: if merge_conjugations:
ShouldMerge(flag) == flag

\* _merge_conjugations: current.pos_short in {doushi, keiyoushi, jodoushi}
IsAnchor(tok) == tok.pos_short \in {"verb", "adjective", "auxiliary"}

\* _merge_conjugations: mergeable_pos
mergeable_pos == {"auxiliary"}

\* seeded fault in Mergeable: every particle is absorbed
MergeableAnyParticle(next_token) ==
    \/ next_token.pos_short \in mergeable_pos
    \/ next_token.pos_short = "particle"

\* _merge_conjugations: the two conditions under which next_token is merged
Mergeable(next_token) ==
    \/ next_token.pos_short \in mergeable_pos
    \/ /\ next_token.surface \in {<<"t">>, <<"d">>}
       /\ next_token.pos_short = "particle"

\* seeded fault in Appended: the added text goes in front
Prepended(merged, added) == added \o merged

\* merged_surface += next_token.surface, merged_reading += next_token.reading
Appended(merged, added) == merged \o added

\* seeded fault in MergedToken: the end of the span stays the anchor's
MergedTokenAnchorEnd(current, surface, reading, end) ==
    [current EXCEPT !.surface = surface, !.reading = reading]

\* _merge_conjugations: the Token built when something was merged
MergedToken(current, surface, reading, end) ==
    [surface |-> surface,
     dictionary_form |-> current.dictionary_form,
     reading |-> reading,
     pos |-> current.pos,
     pos_short |-> current.pos_short,
     start |-> current.start,
     end |-> end,
     is_known |-> current.is_known]

\* seeded fault in AfterMerged: the scan goes on right after the anchor
AfterMergedStep(at, j) == at + 1

\* _merge_conjugations: i = j
AfterMerged(at, j) == j

\* tokenize(text, mode, merge_conjugations) is called
TokStart ==
    /\ tk_text \in TkTexts
    /\ merge_conjugations \in BOOLEAN
    /\ morphemes = <<>>
    /\ tokens = <<>>
    /\ result = <<>>
    /\ tk_i = 1
    /\ tk_j = 1
    /\ merged_surface = <<>>
    /\ merged_reading = <<>>
    /\ merged_end = 0
    /\ tk_pc = "tokenize"

\* tokenize: morphemes = self._tokenizer.tokenize(text, split_mode), the
\* loop that builds tokens, and the test of merge_conjugations
Tokenize ==
    /\ tk_pc = "tokenize"
    /\ \E ms \in Analyses(tk_text) :
          /\ morphemes' = ms
          /\ tokens' = [k \in 1..Len(ms) |-> TokenOf(ms[k])]
    /\ tk_pc' = IF ShouldMerge(merge_conjugations) THEN "merge" ELSE "done"
    /\ UNCHANGED <<tk_text, merge_conjugations, result, tk_i, tk_j,
                   merged_surface, merged_reading, merged_end>>
    /\ UNCHANGED notTok

\* _merge_conjugations: if not tokens: return tokens
MergeEmpty ==
    /\ tk_pc = "merge"
    /\ tokens = <<>>
    /\ tk_pc' = "done"
    /\ UNCHANGED <<tk_text, merge_conjugations, morphemes, tokens, result,
                   tk_i, tk_j, merged_surface, merged_reading, merged_end>>
    /\ UNCHANGED notTok

\* _merge_conjugations: result = []; i = 0
MergeBegin ==
    /\ tk_pc = "merge"
    /\ tokens # <<>>
    /\ result' = <<>>
    /\ tk_i' = 1
    /\ tk_pc' = "while"
    /\ UNCHANGED <<tk_text, merge_conjugations, morphemes, tokens, tk_j,
                   merged_surface, merged_reading, merged_end>>
    /\ UNCHANGED notTok

\* the outer loop at a token that is no anchor: result.append(current); i += 1
PassThrough ==
    /\ tk_pc = "while"
    /\ tk_i <= Len(tokens)
    /\ ~IsAnchor(tokens[tk_i])
    /\ result' = Append(result, tokens[tk_i])
    /\ tk_i' = tk_i + 1
    /\ UNCHANGED <<tk_text, merge_conjugations, morphemes, tokens, tk_j,
                   merged_surface, merged_reading, merged_end, tk_pc>>
    /\ UNCHANGED notTok

\* the outer loop at an anchor: merged_* from current, j = i + 1
AnchorStart ==
    /\ tk_pc = "while"
    /\ tk_i <= Len(tokens)
    /\ IsAnchor(tokens[tk_i])
    /\ merged_surface' = tokens[tk_i].surface
    /\ merged_reading' = tokens[tk_i].reading
    /\ merged_end' = tokens[tk_i].end
    /\ tk_j' = tk_i + 1
    /\ tk_pc' = "absorb"
    /\ UNCHANGED <<tk_text, merge_conjugations, morphemes, tokens, result, tk_i>>
    /\ UNCHANGED notTok

\* the inner loop merges next_token
Absorb ==
    /\ tk_pc = "absorb"
    /\ tk_j <= Len(tokens)
    /\ Mergeable(tokens[tk_j])
    /\ merged_surface' = Appended(merged_surface, tokens[tk_j].surface)
    /\ merged_reading' = Appended(merged_reading, tokens[tk_j].reading)
    /\ merged_end' = tokens[tk_j].end
    /\ tk_j' = tk_j + 1
    /\ UNCHANGED <<tk_text, merge_conjugations, morphemes, tokens, result,
                   tk_i, tk_pc>>
    /\ UNCHANGED notTok

\* the inner loop has ended and j > i + 1: the merged token is appended
EmitMerged ==
    /\ tk_pc = "absorb"
    /\ ~(tk_j <= Len(tokens) /\ Mergeable(tokens[tk_j]))
    /\ tk_j > tk_i + 1
    /\ result' = Append(result, MergedToken(tokens[tk_i], merged_surface,
                                            merged_reading, merged_end))
    /\ tk_i' = AfterMerged(tk_i, tk_j)
    /\ tk_pc' = "while"
    /\ UNCHANGED <<tk_text, merge_conjugations, morphemes, tokens, tk_j,
                   merged_surface, merged_reading, merged_end>>
    /\ UNCHANGED notTok

\* the inner loop has ended and nothing was merged: result.append(current)
EmitUnmerged ==
    /\ tk_pc = "absorb"
    /\ ~(tk_j <= Len(tokens) /\ Mergeable(tokens[tk_j]))
    /\ ~(tk_j > tk_i + 1)
    /\ result' = Append(result, tokens[tk_i])
    /\ tk_i' = tk_i + 1
    /\ tk_pc' = "while"
    /\ UNCHANGED <<tk_text, merge_conjugations, morphemes, tokens, tk_j,
                   merged_surface, merged_reading, merged_end>>
    /\ UNCHANGED notTok

\* the outer loop has ended: return result; tokenize returns it
MergeReturn ==
    /\ tk_pc = "while"
    /\ ~(tk_i <= Len(tokens))
    /\ tokens' = result
    /\ tk_pc' = "done"
    /\ UNCHANGED <<tk_text, merge_conjugations, morphemes, result, tk_i, tk_j,
                   merged_surface, merged_reading, merged_end>>
    /\ UNCHANGED notTok

TokInit == TokStart /\ SegIdle /\ ScoreStart /\ CalcIdle /\ BatchIdle /\ LevelIdle
             /\ ProfStart
             /\ DiffIdle
             /\ ContIdle
             /\ ProfConcIdle
             /\ LazyIdle
             /\ DlIdle

TokNext ==
    \/ Tokenize
    \/ MergeEmpty
    \/ MergeBegin
    \/ PassThrough
    \/ AnchorStart
    \/ Absorb
    \/ EmitMerged
    \/ EmitUnmerged
    \/ MergeReturn

SpecTok == TokInit /\ [][TokNext]_vars

\* ---- helpers of the normalizer properties ----
\* tokenize has returned with merging switched on
MergedDone == tk_pc = "done" /\ merge_conjugations

\* the surfaces, or the readings, of morphemes a..b, one after the other
SurfacesOf(a, b) == Concat([k \in 1..(b - a + 1) |-> morphemes[a + k - 1].surface])
ReadingsOf(a, b) ==
    Concat([k \in 1..(b - a + 1) |-> morphemes[a + k - 1].reading_form])

\* the short part of speech of morpheme k
ShortPos(k) == morphemes[k].part_of_speech[1]

\* morpheme k is an auxiliary verb, or a particle whose surface is te or de
AuxOrTeDe(k) ==
    \/ ShortPos(k) = "auxiliary"
    \/ ShortPos(k) = "particle" /\ morphemes[k].surface \in {<<"t">>, <<"d">>}

\* morpheme k is a verb, an adjective or an auxiliary verb
VerbAdjAux(k) == ShortPos(k) \in {"verb", "adjective", "auxiliary"}

\* output token tok covers exactly the morphemes a..b
Covers(tok, a, b) ==
    /\ a <= b
    /\ morphemes[a].begin = tok.start
    /\ morphemes[b].end = tok.end

\* the output tokens tile the text as the morphemes do
TokensTile ==
    /\ tokens # <<>> => tokens[1].start = 0 /\ tokens[Len(tokens)].end = Len(tk_text)
    /\ \A k \in 1..(Len(tokens) - 1) : tokens[k + 1].start = tokens[k].end

\* C13: with merge_conjugations=False tokenize returns the analyzer's
\* tokens unchanged: same number, same order, every field equal.
C13_DisabledIsIdentity ==
    (tk_pc = "done" /\ ~merge_conjugations) =>
        /\ Len(tokens) = Len(morphemes)
        /\ \A k \in 1..Len(tokens) :
              /\ tokens[k].surface = morphemes[k].surface
              /\ tokens[k].dictionary_form = morphemes[k].dictionary_form
              /\ tokens[k].reading = morphemes[k].reading_form
              /\ tokens[k].pos = morphemes[k].part_of_speech
              /\ tokens[k].pos_short = ShortPos(k)
              /\ tokens[k].start = morphemes[k].begin
              /\ tokens[k].end = morphemes[k].end
              /\ tokens[k].is_known = FALSE

\* a verb stem and its auxiliary verb, kept apart
C13_Witness ==
    /\ tk_pc = "done"
    /\ ~merge_conjugations
    /\ Len(morphemes) = 2
    /\ ShortPos(1) = "verb"
    /\ ShortPos(2) = "auxiliary"
    /\ Len(tokens) = 2

\* C14: _merge_conjugations returns no more tokens than it was given, and
\* the spans of its output are ordered and pairwise disjoint: each token
\* starts at or after the end of the one before it.
C14_FewerAndOrdered ==
    /\ tk_pc \in {"while", "absorb"} =>
          /\ Len(result) <= Len(tokens)
          /\ \A k \in 1..(Len(result) - 1) : result[k + 1].start >= result[k].end
    /\ MergedDone =>
          /\ Len(tokens) <= Len(morphemes)
          /\ \A k \in 1..(Len(tokens) - 1) : tokens[k + 1].start >= tokens[k].end

\* a merge that left two output tokens
C14_Witness ==
    /\ MergedDone
    /\ Len(tokens) = 2
    /\ Len(morphemes) = 3

\* C15: only verbs, adjectives and auxiliary verbs are merge anchors; an
\* anchor absorbs exactly the maximal run of tokens right after it that are
\* auxiliary verbs or particles with surface te or de; every other token is
\* an output token of its own.
C15_AnchorsAndRuns ==
    MergedDone =>
        /\ TokensTile
        /\ \A k \in 1..Len(tokens) :
              \E a, b \in 1..Len(morphemes) :
                  /\ Covers(tokens[k], a, b)
                  /\ b > a => VerbAdjAux(a)
                  /\ \A c \in (a + 1)..b : AuxOrTeDe(c)
                  /\ (VerbAdjAux(a) /\ b < Len(morphemes)) => ~AuxOrTeDe(b + 1)

\* a verb that absorbed te and stopped at the particle after it, which is
\* an output token of its own
C15_Witness ==
    /\ MergedDone
    /\ Len(morphemes) = 3
    /\ ShortPos(1) = "verb"
    /\ ShortPos(2) = "particle" /\ morphemes[2].surface = <<"t">>
    /\ ShortPos(3) = "particle" /\ morphemes[3].surface = <<"x">>
    /\ Len(tokens) = 2
    /\ tokens[2].pos_short = "particle"

\* C16: a merged token has the concatenated surfaces and readings of the
\* anchor and the absorbed tokens, the anchor's dictionary form and part of
\* speech, and the span [anchor.start, lastAbsorbed.end); an anchor that
\* absorbs nothing is passed through unchanged; a verb followed only by
\* auxiliary verbs gives one token over the whole text with the verb's
\* dictionary form.
C16_MergedFields ==
    MergedDone =>
        /\ \A k \in 1..Len(tokens) :
              \E a, b \in 1..Len(morphemes) :
                  /\ Covers(tokens[k], a, b)
                  /\ tokens[k].surface = SurfacesOf(a, b)
                  /\ tokens[k].reading = ReadingsOf(a, b)
                  /\ tokens[k].dictionary_form = morphemes[a].dictionary_form
                  /\ tokens[k].pos = morphemes[a].part_of_speech
                  /\ tokens[k].pos_short = ShortPos(a)
                  /\ tokens[k].is_known = FALSE
                  /\ a = b => tokens[k] = TokenOf(morphemes[a])
        /\ (/\ Len(morphemes) >= 2
            /\ ShortPos(1) = "verb"
            /\ \A c \in 2..Len(morphemes) : ShortPos(c) = "auxiliary")
              => /\ Len(tokens) = 1
                 /\ tokens[1].start = 0
                 /\ tokens[1].end = Len(tk_text)
                 /\ tokens[1].dictionary_form = morphemes[1].dictionary_form

\* tabe + mashi + ta: one token
C16_Witness ==
    /\ MergedDone
    /\ Len(morphemes) = 3
    /\ ShortPos(1) = "verb"
    /\ ShortPos(2) = "auxiliary"
    /\ ShortPos(3) = "auxiliary"
    /\ Len(tokens) = 1
    /\ tokens[1].end = 3

\* the analyzer's tokens lie in the text and their surfaces are the slices
RawTokensFit ==
    \A k \in 1..Len(morphemes) :
        /\ 0 <= morphemes[k].begin
        /\ morphemes[k].begin < morphemes[k].end
        /\ morphemes[k].end <= Len(tk_text)
        /\ SubSeq(tk_text, morphemes[k].begin + 1, morphemes[k].end)
              = morphemes[k].surface

RatLess(a, b) == a[1] * b[2] < b[1] * a[2]

\* ProficiencyService.LOOKUP_THRESHOLDS, in the order of the dict
LOOKUP_THRESHOLDS ==
    << <<"advanced", Rat(2, 1)>>,
       <<"upper_intermediate", Rat(5, 1)>>,
       <<"intermediate", Rat(10, 1)>>,
       <<"elementary", Rat(20, 1)>>,
       <<"beginner", Rat(100, 1)>> >>

\* seeded fault in ScanThresholds: the comparison is <=
RECURSIVE ScanThresholdsInclusive(_, _)
ScanThresholdsInclusive(lookup_rate, k) ==
    IF k > Len(LOOKUP_THRESHOLDS) THEN "beginner"
    ELSE IF RatLeq(lookup_rate, LOOKUP_THRESHOLDS[k][2])
         THEN LOOKUP_THRESHOLDS[k][1]
         ELSE ScanThresholdsInclusive(lookup_rate, k + 1)

\* _calculate_level: the for loop from entry k of the table on, and the
\* return after it
RECURSIVE ScanThresholds(_, _)
ScanThresholds(lookup_rate, k) ==
    IF k > Len(LOOKUP_THRESHOLDS) THEN "beginner"
    ELSE IF RatLess(lookup_rate, LOOKUP_THRESHOLDS[k][2])
         THEN LOOKUP_THRESHOLDS[k][1]
         ELSE ScanThresholds(lookup_rate, k + 1)

\* ProficiencyService._calculate_level
calculate_level(lookup_rate) == ScanThresholds(lookup_rate, 1)

\* lookup rates: the halves from 0 to MaxRateHalves / 2, and two rates at
\* and beyond the last entry of the table
LevelRates == {Rat(n, 2) : n \in 0..MaxRateHalves} \cup {Rat(100, 1), Rat(150, 1)}

LevelStart ==
    /\ rate_a \in LevelRates
    /\ rate_b \in LevelRates
    /\ level_a = ""
    /\ level_b = ""
    /\ level_pc = "call"

CalculateLevels ==
    /\ level_pc = "call"
    /\ level_a' = calculate_level(rate_a)
    /\ level_b' = calculate_level(rate_b)
    /\ level_pc' = "done"
    /\ UNCHANGED <<rate_a, rate_b>>
    /\ UNCHANGED notLevel

LevelInit == LevelStart /\ SegIdle /\ ScoreStart /\ CalcIdle /\ BatchIdle
             /\ TokIdle /\ ProfStart
             /\ DiffIdle
             /\ ContIdle
             /\ ProfConcIdle
             /\ LazyIdle
             /\ DlIdle

LevelNext == CalculateLevels

SpecLevel == LevelInit /\ [][LevelNext]_vars

\* ---- helpers of the level properties ----
\* the band of a lookup rate as the table reads
BandOf(r) ==
    IF RatLess(r, <<2, 1>>) THEN "advanced"
    ELSE IF RatLess(r, <<5, 1>>) THEN "upper_intermediate"
    ELSE IF RatLess(r, <<10, 1>>) THEN "intermediate"
    ELSE IF RatLess(r, <<20, 1>>) THEN "elementary"
    ELSE "beginner"

\* the levels from lowest to highest
LevelRank(l) ==
    CASE l = "beginner" -> 0
      [] l = "elementary" -> 1
      [] l = "intermediate" -> 2
      [] l = "upper_intermediate" -> 3
      [] l = "advanced" -> 4

\* C18: the level is the first band of the table the rate falls under
\* (< 2 advanced, < 5 upper_intermediate, < 10 intermediate, < 20
\* elementary, otherwise beginner), so a lower rate never gives a lower
\* level.
C18_LevelTable ==
    level_pc = "done" =>
        /\ level_a = BandOf(rate_a)
        /\ level_b = BandOf(rate_b)
        /\ RatLeq(rate_a, rate_b) => LevelRank(level_a) >= LevelRank(level_b)

\* a rate exactly on a threshold and a lower one in the band above
C18_Witness ==
    /\ level_pc = "done"
    /\ rate_a = <<3, 2>>
    /\ level_a = "advanced"
    /\ rate_b = <<2, 1>>
    /\ level_b = "upper_intermediate"

(***************************************************************************)
(* Part 7: recording a reading session,                                    *)
(*         ProficiencyService.record_reading_session with                  *)
(*         ProficiencyRepository (app/repositories/proficiency_repo.py)    *)
(*         behind POST /proficiency/record-reading                         *)
(*                                                                         *)
(* Requests are handled one at a time.  The counts a request carries are   *)
(* counts: not negative.  A step is a commit of the request's session.     *)
(***************************************************************************)
\* ProficiencyService.MIN_TOKENS_FOR_LEVEL_UP
MIN_TOKENS_FOR_LEVEL_UP == 1000

\* UserProficiency(): the column defaults
NewUserProficiency ==
    [level |-> "beginner",
     total_characters_read |-> 0,
     total_tokens_read |-> 0,
     total_lookups |-> 0,
     total_reading_time_seconds |-> 0,
     avg_lookup_rate |-> One,
     avg_reading_speed |-> Zero,
     easy_ratings |-> 0,
     just_right_ratings |-> 0,
     hard_ratings |-> 0,
     auto_furigana_threshold |-> Zero,
     auto_meanings_threshold |-> Zero]

\* the metrics a record-reading request may carry
TokensRead == {0, 400, 1000}
Lookups == {0, 20, 400}
CharactersRead == {0, 600}
ReadingTimeSeconds == {0, 60}

\* update_metrics: the four += and the two guarded rate assignments
UpdatedMetrics(p, q) ==
    LET t == [p EXCEPT
                !.total_characters_read = @ + q.characters_read,
                !.total_tokens_read = @ + q.tokens_read,
                !.total_lookups = @ + q.lookups,
                !.total_reading_time_seconds = @ + q.reading_time_seconds]
    IN [t EXCEPT
          !.avg_lookup_rate =
              IF t.total_tokens_read > 0
              THEN Rat(t.total_lookups * 100, t.total_tokens_read)
              ELSE @,
          !.avg_reading_speed =
              IF t.total_reading_time_seconds > 0
              THEN Rat(t.total_characters_read * 60, t.total_reading_time_seconds)
              ELSE @]

\* seeded fault in EnoughData: the level is recomputed whatever the total
EnoughDataAlways(p) == TRUE

\* record_reading_session:
\*   if proficiency.total_tokens_read >= self.MIN_TOKENS_FOR_LEVEL_UP
EnoughData(p) == p.total_tokens_read >= MIN_TOKENS_FOR_LEVEL_UP

\* POST /proficiency/record-reading arrives: a new session, nothing loaded
ProfCall ==
    /\ prof_req.pc = "idle"
    /\ sessions < MaxSessions
    /\ \E c \in CharactersRead, t \in TokensRead, l \in Lookups,
          s \in ReadingTimeSeconds :
          prof_req' = [pc |-> "um_select",
                       characters_read |-> c, tokens_read |-> t,
                       lookups |-> l, reading_time_seconds |-> s,
                       proficiency |-> NewUserProficiency,
                       new_level |-> ""]
    /\ sessions' = sessions + 1
    /\ UNCHANGED user_proficiency
    /\ UNCHANGED notProf

\* update_metrics -> get_or_create: select(UserProficiency).limit(1) finds
\* the row
UmSelect ==
    /\ prof_req.pc = "um_select"
    /\ user_proficiency # <<>>
    /\ prof_req' = [prof_req EXCEPT !.proficiency = user_proficiency[1],
                                    !.pc = "um_commit"]
    /\ UNCHANGED <<user_proficiency, sessions>>
    /\ UNCHANGED notProf

\* update_metrics -> get_or_create: no row; UserProficiency() is added,
\* committed and refreshed
UmCreate ==
    /\ prof_req.pc = "um_select"
    /\ user_proficiency = <<>>
    /\ user_proficiency' = <<NewUserProficiency>>
    /\ prof_req' = [prof_req EXCEPT !.proficiency = NewUserProficiency,
                                    !.pc = "um_commit"]
    /\ UNCHANGED sessions
    /\ UNCHANGED notProf

\* update_metrics: the assignments, session.add, commit, refresh, return
UmCommit ==
    /\ prof_req.pc = "um_commit"
    /\ LET now == UpdatedMetrics(prof_req.proficiency, prof_req)
       IN /\ user_proficiency' = [user_proficiency EXCEPT ![1] = now]
          /\ prof_req' = [prof_req EXCEPT !.proficiency = now, !.pc = "check"]
    /\ UNCHANGED sessions
    /\ UNCHANGED notProf

\* record_reading_session: the threshold test, _calculate_level and the
\* comparison with the current level
CheckLevel ==
    /\ prof_req.pc = "check"
    /\ LET p == prof_req.proficiency
           new_level == calculate_level(p.avg_lookup_rate)
       IN prof_req' =
              IF EnoughData(p) /\ new_level # p.level
              THEN [prof_req EXCEPT !.new_level = new_level, !.pc = "ul_commit"]
              ELSE [prof_req EXCEPT !.pc = "returned"]
    /\ UNCHANGED <<user_proficiency, sessions>>
    /\ UNCHANGED notProf

\* update_level: get_or_create returns the loaded object, level is set,
\* commit, refresh, return
UlCommit ==
    /\ prof_req.pc = "ul_commit"
    /\ LET now == [prof_req.proficiency EXCEPT !.level = prof_req.new_level]
       IN /\ user_proficiency' = [user_proficiency EXCEPT ![1] = now]
          /\ prof_req' = [prof_req EXCEPT !.proficiency = now, !.pc = "returned"]
    /\ UNCHANGED sessions
    /\ UNCHANGED notProf

\* the route reads the stats, answers, and the session closes
ProfRespond ==
    /\ prof_req.pc = "returned"
    /\ prof_req' = [pc |-> "idle"]
    /\ UNCHANGED <<user_proficiency, sessions>>
    /\ UNCHANGED notProf

\* an await of the request raises: the handler is left, what it has
\* committed stays
ProfAbort ==
    /\ prof_req.pc \notin {"idle", "returned"}
    /\ prof_req' = [pc |-> "idle"]
    /\ UNCHANGED <<user_proficiency, sessions>>
    /\ UNCHANGED notProf

ProfInit == ProfStart /\ SegIdle /\ ScoreStart /\ CalcIdle /\ BatchIdle
            /\ TokIdle /\ LevelIdle
             /\ DiffIdle
             /\ ContIdle
             /\ ProfConcIdle
             /\ LazyIdle
             /\ DlIdle

ProfNext ==
    \/ ProfCall
    \/ UmSelect
    \/ UmCreate
    \/ UmCommit
    \/ CheckLevel
    \/ UlCommit
    \/ ProfRespond
    \/ ProfAbort

SpecProf == ProfInit /\ [][ProfNext]_vars

\* ---- helpers of the reading-session properties ----
\* the stored proficiency rows
ProfRows == {user_proficiency[k] : k \in 1..Len(user_proficiency)}

\* a step changes the stored level only if it leaves the total at
\* MIN_TOKENS_FOR_LEVEL_UP or more
C19_LevelStep ==
    (/\ user_proficiency # <<>>
     /\ user_proficiency' # <<>>
     /\ user_proficiency'[1].level # user_proficiency[1].level)
        => user_proficiency'[1].total_tokens_read >= 1000

\* while the total is below 1000 the stored level is the initial one; when
\* a session returns with the total at 1000 or more, the stored level is
\* the band of the stored lookup rate, which is the rate of the totals
C19_AfterSession ==
    /\ \A p \in ProfRows :
          p.total_tokens_read < 1000 => p.level = "beginner"
    /\ prof_req.pc = "returned" =>
          /\ prof_req.proficiency = user_proficiency[1]
          /\ user_proficiency[1].total_tokens_read >= 1000 =>
                /\ user_proficiency[1].level
                      = BandOf(user_proficiency[1].avg_lookup_rate)
                /\ user_proficiency[1].avg_lookup_rate
                      = Rat(user_proficiency[1].total_lookups * 100,
                            user_proficiency[1].total_tokens_read)

C20_ZeroDenominatorGivesZero ==
    prof_req.pc = "returned" =>
        /\ user_proficiency[1].total_tokens_read = 0
              => user_proficiency[1].avg_lookup_rate = Zero
        /\ user_proficiency[1].total_reading_time_seconds = 0
              => user_proficiency[1].avg_reading_speed = Zero

(***************************************************************************)
(* Part 8: the difficulty estimator, DifficultyAnalysisService             *)
(*         (app/services/difficulty_service.py)                            *)
(*                                                                         *)
(* The readability scorer (jreadability), the frequency service (wordfreq) *)
(* and the grade service (kanjiapi.dev over httpx) are outside the          *)
(* repository: whether a package is installed is fixed for a run, and what *)
(* a call into them does (answers, or raises) is chosen at each call.      *)
(*                                                                         *)
(* Characters of a difficulty text: "k1" and "k2" are two kanji, "h" is a  *)
(* hiragana; such a text holds no sentence terminator, no whitespace and   *)
(* none of the grammar patterns, and is one word of the word regex.        *)
(***************************************************************************)
DfChars == Kanji \cup {"h"}

DfTexts == SeqsUpTo(DfChars, MaxDiffText)

\* the grade _get_kanji_grade gives when the service answers without one
UNCOMMON_GRADE == 9

\* the grade _get_kanji_grade gives after an error status or an exception
DEFAULT_GRADE == 5

\* what the grade service can do to a request: answer 200 with a grade,
\* answer 200 with "grade": null or no grade, answer another status, or
\* fail (timeout, connection error, invalid JSON)
GradeResponses ==
    {[kind |-> "grade", grade |-> g] : g \in {1, 8}}
        \cup {[kind |-> k, grade |-> 0] : k \in {"no_grade", "error_status", "raises"}}

\* _get_kanji_grade: the grade returned and cached for a response
GradeFor(response) ==
    IF response.kind = "grade" THEN response.grade
    ELSE IF response.kind = "no_grade" THEN UNCOMMON_GRADE
    ELSE DEFAULT_GRADE

\* what compute_readability(text) can return
ReadabilityScores == {Rat(1, 4), Rat(3, 1)}

\* what word_frequency(word, "ja") can return
WordFrequencies == {Zero, Rat(1, 1000), Rat(1, 100)}

\* _extract_kanji: the kanji characters of the text, in order
RECURSIVE extract_kanji(_)
extract_kanji(t) ==
    IF t = <<>> THEN <<>>
    ELSE IF Head(t) \in Kanji THEN <<Head(t)>> \o extract_kanji(Tail(t))
    ELSE extract_kanji(Tail(t))

\* _estimate_difficulty_from_chars: min(1.0, kanji / total * 2)
estimate_difficulty_from_chars(t) ==
    IF Len(t) = 0 THEN Zero
    ELSE RatMin(One, Rat(Len(extract_kanji(t)) * 2, Len(t)))

\* 1.0 - min(1.0, max(0.0, score))
InvertedReadability(score) == RatSub(One, RatMin(One, RatMax(Zero, score)))

\* _compute_lexical_difficulty: the difficulty of one word of frequency freq
WordDifficulty(freq) ==
    IF RatLess(Zero, freq)
    THEN RatSub(One, RatMin(One, RatMul(RatAdd(freq, Rat(1, 10000)), Rat(100, 1))))
    ELSE Rat(9, 10)

\* _compute_grammar_complexity on a text without any of the patterns
compute_grammar_complexity(t) == Rat(3, 10)

\* _compute_sentence_complexity on a text that is one sentence: the
\* variance is 0, so the value is min(1, clamp((len - 10) / 70, 0, 1) + 0)
compute_sentence_complexity(t) ==
    IF Len(t) = 0 THEN Zero
    ELSE RatMin(One, RatMin(One, RatMax(Zero, Rat(Len(t) - 10, 70))))

\* _avg_sentence_length on a text that is one sentence
avg_sentence_length(t) == IF Len(t) = 0 THEN Zero ELSE Rat(Len(t), 1)

\* DifficultyAnalysisService.LEVEL_THRESHOLDS
LEVEL_THRESHOLDS ==
    << <<Rat(2, 10), "Beginner">>, <<Rat(4, 10), "Elementary">>,
       <<Rat(6, 10), "Intermediate">>, <<Rat(8, 10), "Advanced">>,
       <<Rat(1, 1), "Expert">> >>

\* _get_difficulty_level: the loop from entry k on, and the final return
RECURSIVE ScanLevels(_, _)
ScanLevels(score, k) ==
    IF k > Len(LEVEL_THRESHOLDS) THEN "Expert"
    ELSE IF RatLeq(score, LEVEL_THRESHOLDS[k][1]) THEN LEVEL_THRESHOLDS[k][2]
    ELSE ScanLevels(score, k + 1)

get_difficulty_level(score) == ScanLevels(score, 1)

\* round(x, 3) for x >= 0: to the nearest thousandth, a tie to the even one
Round3(x) ==
    LET s == x[1] * 1000
        q == s \div x[2]
        r == s % x[2]
    IN IF 2 * r > x[2] \/ (2 * r = x[2] /\ q % 2 = 1)
       THEN Rat(q + 1, 1000)
       ELSE Rat(q, 1000)

\* the set of the elements of a list
Elements(l) == {l[k] : k \in 1..Len(l)}

\* analyze_text: the DifficultyMetrics built from the five components
MetricsOf(t, o, k, l) ==
    LET grammar == compute_grammar_complexity(t)
        sentence == compute_sentence_complexity(t)
        avg_difficulty ==
            RatMul(RatAdd(RatAdd(RatAdd(RatAdd(o, k), l), grammar), sentence),
                   Rat(1, 5))
    IN [overall_difficulty |-> Round3(o),
        kanji_difficulty |-> Round3(k),
        lexical_difficulty |-> Round3(l),
        grammar_complexity |-> Round3(grammar),
        sentence_complexity |-> Round3(sentence),
        difficulty_level |-> get_difficulty_level(avg_difficulty),
        total_characters |-> Len(t),
        kanji_count |-> Len(extract_kanji(t)),
        unique_kanji |-> Cardinality(Elements(extract_kanji(t))),
        avg_sentence_length |-> avg_sentence_length(t)]

\* _empty_metrics
empty_metrics == [NoMetrics EXCEPT !.difficulty_level = "Beginner"]

\* a service instance is created in some environment
DiffStart ==
    /\ jreadability_installed \in BOOLEAN
    /\ wordfreq_installed \in BOOLEAN
    /\ DiffFresh

\* what an action of analyze_text leaves alone besides what it names
dfEnv == <<jreadability_installed, wordfreq_installed>>

\* analyze_text(text) is called with text.strip() empty: _empty_metrics
AnalyzeEmpty ==
    /\ df_pc \in {"idle", "returned", "raised"}
    /\ analyses < MaxAnalyses
    /\ analyses' = analyses + 1
    /\ df_text' = <<>>
    /\ metrics' = empty_metrics
    /\ df_pc' = "returned"
    /\ UNCHANGED <<kanji_cache, jreadability_available, wordfreq_available,
                   overall, kanji, lexical, kanji_todo, total_grade, last_grade>>
    /\ UNCHANGED dfEnv
    /\ UNCHANGED notDiff

\* analyze_text(text) is called with a text that is not blank
AnalyzeCall ==
    /\ df_pc \in {"idle", "returned", "raised"}
    /\ analyses < MaxAnalyses
    /\ analyses' = analyses + 1
    /\ \E t \in DfTexts \ {<<>>} : df_text' = t
    /\ metrics' = NoMetrics
    /\ df_pc' = "overall"
    /\ UNCHANGED <<kanji_cache, jreadability_available, wordfreq_available,
                   overall, kanji, lexical, kanji_todo, total_grade, last_grade>>
    /\ UNCHANGED dfEnv
    /\ UNCHANGED notDiff

\* the availability flag after the import probe of its first use
Probed(flag, installed) ==
    IF flag = "none" THEN (IF installed THEN "true" ELSE "false") ELSE flag

\* _compute_overall_difficulty: jreadability is available and
\* compute_readability answers
OverallScored ==
    /\ df_pc = "overall"
    /\ Probed(jreadability_available, jreadability_installed) = "true"
    /\ jreadability_available' = "true"
    /\ \E score \in ReadabilityScores : overall' = InvertedReadability(score)
    /\ df_pc' = "kanji"
    /\ UNCHANGED <<kanji_cache, wordfreq_available, df_text, kanji, lexical,
                   kanji_todo, total_grade, last_grade, metrics, analyses>>
    /\ UNCHANGED dfEnv
    /\ UNCHANGED notDiff

\* _compute_overall_difficulty: jreadability is not available, or
\* compute_readability raises: _estimate_difficulty_from_chars
OverallFallback ==
    /\ df_pc = "overall"
    /\ jreadability_available' =
          Probed(jreadability_available, jreadability_installed)
    /\ overall' = estimate_difficulty_from_chars(df_text)
    /\ df_pc' = "kanji"
    /\ UNCHANGED <<kanji_cache, wordfreq_available, df_text, kanji, lexical,
                   kanji_todo, total_grade, last_grade, metrics, analyses>>
    /\ UNCHANGED dfEnv
    /\ UNCHANGED notDiff

\* _compute_kanji_difficulty: no kanji in the text
KanjiNone ==
    /\ df_pc = "kanji"
    /\ extract_kanji(df_text) = <<>>
    /\ kanji' = Zero
    /\ df_pc' = "lexical"
    /\ UNCHANGED <<kanji_cache, jreadability_available, wordfreq_available,
                   df_text, overall, lexical, kanji_todo, total_grade,
                   last_grade, metrics, analyses>>
    /\ UNCHANGED dfEnv
    /\ UNCHANGED notDiff

\* _compute_kanji_difficulty: total_grade = 0 and the loop over
\* set(kanji_chars) starts
KanjiBegin ==
    /\ df_pc = "kanji"
    /\ extract_kanji(df_text) # <<>>
    /\ kanji_todo' = Elements(extract_kanji(df_text))
    /\ total_grade' = 0
    /\ df_pc' = "grades"
    /\ UNCHANGED <<kanji_cache, jreadability_available, wordfreq_available,
                   df_text, overall, kanji, lexical, last_grade, metrics,
                   analyses>>
    /\ UNCHANGED dfEnv
    /\ UNCHANGED notDiff

\* _get_kanji_grade: the kanji is in self._kanji_cache
GradeCached ==
    /\ df_pc = "grades"
    /\ \E k \in kanji_todo :
          /\ kanji_cache[k] # 0
          /\ total_grade' = total_grade + kanji_cache[k]
          /\ kanji_todo' = kanji_todo \ {k}
    /\ UNCHANGED <<kanji_cache, jreadability_available, wordfreq_available,
                   df_text, overall, kanji, lexical, last_grade, metrics,
                   analyses, df_pc>>
    /\ UNCHANGED dfEnv
    /\ UNCHANGED notDiff

\* _get_kanji_grade: the kanji is not cached; the grade service is asked,
\* and the grade is cached and returned
GradeAsked ==
    /\ df_pc = "grades"
    /\ \E k \in kanji_todo, response \in GradeResponses :
          /\ kanji_cache[k] = 0
          /\ kanji_cache' = [kanji_cache EXCEPT ![k] = GradeFor(response)]
          /\ last_grade' = [kanji |-> k, kind |-> response.kind,
                            grade |-> GradeFor(response)]
          /\ total_grade' = total_grade + GradeFor(response)
          /\ kanji_todo' = kanji_todo \ {k}
    /\ UNCHANGED <<jreadability_available, wordfreq_available, df_text,
                   overall, kanji, lexical, metrics, analyses, df_pc>>
    /\ UNCHANGED dfEnv
    /\ UNCHANGED notDiff

\* _compute_kanji_difficulty: the loop has ended;
\* min(1.0, total_grade / len(set(kanji_chars)) / 10)
KanjiAverage ==
    /\ df_pc = "grades"
    /\ kanji_todo = {}
    /\ kanji' = RatMin(One,
                       Rat(total_grade,
                           10 * Cardinality(Elements(extract_kanji(df_text)))))
    /\ df_pc' = "lexical"
    /\ UNCHANGED <<kanji_cache, jreadability_available, wordfreq_available,
                   df_text, overall, lexical, kanji_todo, total_grade,
                   last_grade, metrics, analyses>>
    /\ UNCHANGED dfEnv
    /\ UNCHANGED notDiff

\* _compute_lexical_difficulty: wordfreq is not available: 0.5
LexicalUnavailable ==
    /\ df_pc = "lexical"
    /\ Probed(wordfreq_available, wordfreq_installed) = "false"
    /\ wordfreq_available' = "false"
    /\ lexical' = Rat(1, 2)
    /\ df_pc' = "finish"
    /\ UNCHANGED <<kanji_cache, jreadability_available, df_text, overall,
                   kanji, kanji_todo, total_grade, last_grade, metrics,
                   analyses>>
    /\ UNCHANGED dfEnv
    /\ UNCHANGED notDiff

\* _compute_lexical_difficulty: wordfreq is available and word_frequency
\* answers for the one word of the text
LexicalScored ==
    /\ df_pc = "lexical"
    /\ Probed(wordfreq_available, wordfreq_installed) = "true"
    /\ wordfreq_available' = "true"
    /\ \E freq \in WordFrequencies : lexical' = WordDifficulty(freq)
    /\ df_pc' = "finish"
    /\ UNCHANGED <<kanji_cache, jreadability_available, df_text, overall,
                   kanji, kanji_todo, total_grade, last_grade, metrics,
                   analyses>>
    /\ UNCHANGED dfEnv
    /\ UNCHANGED notDiff

\* _compute_lexical_difficulty: wordfreq is available and word_frequency
\* raises; nothing catches it, analyze_text raises
LexicalRaises ==
    /\ df_pc = "lexical"
    /\ Probed(wordfreq_available, wordfreq_installed) = "true"
    /\ wordfreq_available' = "true"
    /\ df_pc' = "raised"
    /\ UNCHANGED <<kanji_cache, jreadability_available, df_text, overall,
                   kanji, lexical, kanji_todo, total_grade, last_grade,
                   metrics, analyses>>
    /\ UNCHANGED dfEnv
    /\ UNCHANGED notDiff

\* analyze_text: grammar, sentence, the level, and the return
AnalyzeReturn ==
    /\ df_pc = "finish"
    /\ metrics' = MetricsOf(df_text, overall, kanji, lexical)
    /\ df_pc' = "returned"
    /\ UNCHANGED <<kanji_cache, jreadability_available, wordfreq_available,
                   df_text, overall, kanji, lexical, kanji_todo, total_grade,
                   last_grade, analyses>>
    /\ UNCHANGED dfEnv
    /\ UNCHANGED notDiff

DiffInit == DiffStart /\ SegIdle /\ ScoreStart /\ CalcIdle /\ BatchIdle
            /\ TokIdle /\ LevelIdle /\ ProfStart
             /\ ContIdle
             /\ ProfConcIdle
             /\ LazyIdle
             /\ DlIdle

DiffNext ==
    \/ AnalyzeEmpty
    \/ AnalyzeCall
    \/ OverallScored
    \/ OverallFallback
    \/ KanjiNone
    \/ KanjiBegin
    \/ GradeCached
    \/ GradeAsked
    \/ KanjiAverage
    \/ LexicalUnavailable
    \/ LexicalScored
    \/ LexicalRaises
    \/ AnalyzeReturn

SpecDiff == DiffInit /\ [][DiffNext]_vars

\* C21: for a text that is not blank analyze_text always returns metrics:
\* when a dependency is not installed, unavailable, times out or raises
\* during the call, the fallback of that component is used and no error is
\* propagated.
C21_AlwaysReturns == df_pc # "raised"

\* C22: a kanji whose grade is unknown gets the grade of an uncommon kanji,
\* the same whether the service answers without a grade, answers with an
\* error status, times out or raises, and that grade is what is cached.
C22_UnknownGradeIsUncommon ==
    last_grade.kind \in {"no_grade", "error_status", "raises"} =>
        /\ last_grade.grade = 9
        /\ kanji_cache[last_grade.kanji] = 9


(***************************************************************************)
(* Part 9: the content store, ContentService over the tables content and   *)
(*         content_chunks (app/services/content_service.py,                *)
(*         app/repositories/content_repo.py, app/repositories/base.py,     *)
(*         app/api/routes/content.py)                                      *)
(*                                                                         *)
(* One request at a time; every commit is a step.  The database is SQLite  *)
(* and the primary keys are plain INTEGER PRIMARY KEY columns, so an       *)
(* inserted row gets the largest id of its table plus one.  A difficulty   *)
(* is a whole number of hundredths, -1 standing for NULL.  A chunk text is *)
(* "a" or "b"; tokenized_json is TRUE once the serialized tokens are       *)
(* stored and FALSE while the column is NULL.                              *)
(***************************************************************************)
\* the ids a stored content can have
ContentIds == {1, 2}

ChunkTexts == {"a", "b"}

\* what _chunk_text can hand to create_chunks: a list of chunk texts
ChunkLists == UNION {[1..n -> ChunkTexts] : n \in 0..MaxChunks}

\* <<total_tokens, len(unique_vocab)>> at the end of the tokenizing loop
TokenStats == {<<0, 0>>, <<20, 1>>, <<40, 9>>, <<20, 9>>}

\* the mean of the three target difficulties of the proficiency row
TargetDifficulties == {30, 50}

\* the id SQLite gives to the next row of a table
NextId(rows) ==
    IF rows = {} THEN 1
    ELSE (CHOOSE m \in {r.id : r \in rows} : \A r \in rows : r.id <= m) + 1

\* BaseRepository.get: the rows with that id (none, or one)
get(rows, id) == {r \in rows : r.id = id}

\* _estimate_difficulty, in hundredths: round(min(1.0, density * 2), 2)
estimate_difficulty(total_tokens, unique_vocab) ==
    IF total_tokens = 0 THEN 0
    ELSE LET d == RatMin(One, RatMul(Rat(unique_vocab, total_tokens), <<2, 1>>))
             s == d[1] * 100
             q == s \div d[2]
             r == s % d[2]
         IN IF 2 * r > d[2] \/ (2 * r = d[2] /\ q % 2 = 1) THEN q + 1 ELSE q

\* seeded fault in NewChunks: the indexes start at one
NewChunksOneBased(content_id, texts) ==
    LET base == NextId(content_chunks)
    IN {[id |-> base + n - 1, content_id |-> content_id, chunk_index |-> n,
         raw_text |-> texts[n], tokenized_json |-> FALSE] : n \in 1..Len(texts)}

\* create_chunks: one row for each text, chunk_index from enumerate
NewChunks(content_id, texts) ==
    LET base == NextId(content_chunks)
    IN {[id |-> base + n - 1, content_id |-> content_id, chunk_index |-> n - 1,
         raw_text |-> texts[n], tokenized_json |-> FALSE] : n \in 1..Len(texts)}

\* seeded fault in WithoutChunksOf: no chunk is deleted
WithoutChunksOfNone(content_id) == content_chunks

\* delete_chunks_for_content: the table without the chunks of that content
WithoutChunksOf(content_id) ==
    {r \in content_chunks : r.content_id # content_id}

\* get_chunks_for_content: the chunks of a content ordered by chunk_index
get_chunks_for_content(content_id) ==
    LET cs == {r \in content_chunks : r.content_id = content_id}
    IN CHOOSE l \in [1..Cardinality(cs) -> cs] :
           /\ \A r \in cs : \E n \in 1..Cardinality(cs) : l[n] = r
           /\ \A m, n \in 1..Cardinality(cs) :
                  m < n => l[m].chunk_index <= l[n].chunk_index

ContFree == cont_pc \in {"idle", "returned", "raised"}

\* import_text(title, text, ...) is called; the text is chunked
ImportCall(texts, pre_tokenize, stats) ==
    /\ ContFree
    /\ NextId(content) \in ContentIds
    /\ (~pre_tokenize \/ texts = <<>>) => stats = <<0, 0>>
    /\ stats[2] <= stats[1]
    /\ cont_call' = [NoContCall EXCEPT !.op = "import", !.chunks_text = texts,
                                       !.pre_tokenize = pre_tokenize,
                                       !.stats = stats,
                                       !.pre_content = content,
                                       !.pre_chunks = content_chunks]
    /\ cont_pc' = "create"
    /\ UNCHANGED <<content, content_chunks>>
    /\ UNCHANGED notCont

\* import_text: self._content_repo.create(content)
ContentCreate ==
    /\ cont_pc = "create"
    /\ LET id == NextId(content)
       IN /\ content' = content \cup
                 {[id |-> id, total_tokens |-> 0, unique_vocabulary |-> 0,
                   difficulty_estimate |-> -1]}
          /\ cont_call' = [cont_call EXCEPT !.content_id = id]
    /\ cont_pc' = "chunks"
    /\ UNCHANGED content_chunks
    /\ UNCHANGED notCont

\* import_text: self._chunk_repo.create_chunks(content.id, chunks_text)
CreateChunks ==
    /\ cont_pc = "chunks"
    /\ LET base == NextId(content_chunks)
           n == Len(cont_call.chunks_text)
       IN /\ content_chunks' = content_chunks \cup
                 NewChunks(cont_call.content_id, cont_call.chunks_text)
          /\ cont_call' = [cont_call EXCEPT
                 !.created = [m \in 1..n |-> base + m - 1], !.k = 1]
          /\ cont_pc' = IF cont_call.pre_tokenize /\ n > 0 THEN "tokenize"
                        ELSE "update"
    /\ UNCHANGED content
    /\ UNCHANGED notCont

\* import_text: one turn of the loop, update_tokenized_json(chunk.id, ...)
TokenizeChunk ==
    /\ cont_pc = "tokenize"
    /\ LET id == cont_call.created[cont_call.k]
       IN content_chunks' =
              {IF r.id = id THEN [r EXCEPT !.tokenized_json = TRUE] ELSE r :
                   r \in content_chunks}
    /\ cont_call' = [cont_call EXCEPT !.k = @ + 1]
    /\ cont_pc' = IF cont_call.k = Len(cont_call.created) THEN "update"
                  ELSE "tokenize"
    /\ UNCHANGED content
    /\ UNCHANGED notCont

\* import_text: the statistics are stored with self._content_repo.update
ContentUpdate ==
    /\ cont_pc = "update"
    /\ content' =
           {IF r.id = cont_call.content_id
            THEN [r EXCEPT !.total_tokens = cont_call.stats[1],
                           !.unique_vocabulary = cont_call.stats[2],
                           !.difficulty_estimate =
                               estimate_difficulty(cont_call.stats[1],
                                                   cont_call.stats[2])]
            ELSE r : r \in content}
    /\ cont_call' = [cont_call EXCEPT !.ret = "content"]
    /\ cont_pc' = "returned"
    /\ UNCHANGED content_chunks
    /\ UNCHANGED notCont

\* delete_content(content_id) is called: the content is looked up
DeleteCall(content_id) ==
    /\ ContFree
    /\ cont_call' = [NoContCall EXCEPT
           !.op = "delete", !.content_id = content_id,
           !.pre_content = content, !.pre_chunks = content_chunks,
           !.ret = IF get(content, content_id) = {} THEN "false" ELSE "none"]
    /\ cont_pc' = IF get(content, content_id) = {} THEN "returned"
                  ELSE "delete_chunks"
    /\ UNCHANGED <<content, content_chunks>>
    /\ UNCHANGED notCont

\* delete_content: self._chunk_repo.delete_chunks_for_content(content_id)
DeleteChunks ==
    /\ cont_pc = "delete_chunks"
    /\ content_chunks' = WithoutChunksOf(cont_call.content_id)
    /\ cont_pc' = "delete"
    /\ UNCHANGED <<content, cont_call>>
    /\ UNCHANGED notCont

\* delete_content: self._content_repo.delete(content_id)
DeleteContent ==
    /\ cont_pc = "delete"
    /\ LET obj == get(content, cont_call.content_id)
       IN /\ content' = content \ obj
          /\ cont_call' = [cont_call EXCEPT
                 !.ret = IF obj # {} THEN "true" ELSE "false"]
    /\ cont_pc' = "returned"
    /\ UNCHANGED content_chunks
    /\ UNCHANGED notCont

\* GET /content/practice: the target difficulty is read off the proficiency
PracticeCall(target, exclude) ==
    /\ ContFree
    /\ cont_call' = [NoContCall EXCEPT
           !.op = "practice", !.target = target, !.exclude = exclude,
           !.pre_content = content, !.pre_chunks = content_chunks]
    /\ cont_pc' = "practice"
    /\ UNCHANGED <<content, content_chunks>>
    /\ UNCHANGED notCont

\* GET /content/practice: content_service.get_reading_practice(...) is an
\* attribute ContentService does not have, so the call raises AttributeError
PracticeRaises ==
    /\ cont_pc = "practice"
    /\ cont_call' = [cont_call EXCEPT !.ret = "raised"]
    /\ cont_pc' = "raised"
    /\ UNCHANGED <<content, content_chunks>>
    /\ UNCHANGED notCont

ContInit == ContIdle /\ SegIdle /\ ScoreStart /\ CalcIdle /\ BatchIdle
            /\ TokIdle /\ LevelIdle /\ ProfStart /\ DiffIdle
             /\ ProfConcIdle
             /\ LazyIdle
             /\ DlIdle

ContNext ==
    \/ \E texts \in ChunkLists, pre_tokenize \in BOOLEAN, stats \in TokenStats :
           ImportCall(texts, pre_tokenize, stats)
    \/ ContentCreate
    \/ CreateChunks
    \/ TokenizeChunk
    \/ ContentUpdate
    \/ \E content_id \in ContentIds : DeleteCall(content_id)
    \/ DeleteChunks
    \/ DeleteContent
    \/ \E target \in TargetDifficulties, exclude \in {0} \cup ContentIds :
           PracticeCall(target, exclude)
    \/ PracticeRaises

SpecCont == ContInit /\ [][ContNext]_vars

\* the distance of a stored difficulty from the target, in hundredths
Distance(row, target) == Abs(row.difficulty_estimate - target)

\* the contents a practice request may return
Candidates == {r \in cont_call.pre_content : r.id # cont_call.exclude}

\* C23: a finished practice request returned a content whose difficulty is
\* nearest to the target among the stored contents other than the excluded
\* one, with a chunk of that content, or reported not-found when there was
\* no such content.
C23_NearestDifficulty ==
    (cont_call.op = "practice" /\ cont_pc \in {"returned", "raised"}) =>
        IF Candidates = {} THEN cont_call.ret = "not_found"
        ELSE /\ cont_call.ret = "pair"
             /\ \E c \in Candidates :
                    /\ c.id = cont_call.ret_content
                    /\ \A o \in Candidates :
                           Distance(c, cont_call.target) <=
                               Distance(o, cont_call.target)
                    /\ \E r \in cont_call.pre_chunks :
                           /\ r.id = cont_call.ret_chunk
                           /\ r.content_id = c.id


\* the chunks stored for a content
ChunksOf(content_id) == {r \in content_chunks : r.content_id = content_id}

\* the chunk indexes of every stored content are 0 .. n-1, each once
C25_IndexesDense ==
    \A c \in content :
        {r.chunk_index : r \in ChunksOf(c.id)} =
            0..(Cardinality(ChunksOf(c.id)) - 1)

\* the chunks of the content being imported hold the chunk texts in order
C25_SegmenterOrder ==
    (cont_call.op = "import" /\ cont_pc \in {"tokenize", "update", "returned"}) =>
        LET l == get_chunks_for_content(cont_call.content_id)
        IN [n \in 1..Len(l) |-> l[n].raw_text] = cont_call.chunks_text

\* a chunk that is kept keeps its content_id and its chunk_index
C25_ChunkStep ==
    \A r \in content_chunks : \A q \in content_chunks' :
        r.id = q.id => /\ r.content_id = q.content_id
                       /\ r.chunk_index = q.chunk_index

\* C25: after any sequence of imports and deletions the chunks of each
\* content carry the indexes 0 .. n-1 exactly once each, in the order the
\* segmenter produced them, and no step changes the index or the content_id
\* of an existing chunk.
C25_ChunkIndexes ==
    /\ [](C25_IndexesDense /\ C25_SegmenterOrder)
    /\ [][C25_ChunkStep]_vars

\* C25 witness: after an import of two contents and the deletion of one, the
\* other still holds its two tokenized chunks "b", "a" at indexes 0 and 1
C25_Witness ==
    /\ cont_pc = "returned"
    /\ cont_call.op = "delete"
    /\ cont_call.ret = "true"
    /\ \E c \in content :
           LET l == get_chunks_for_content(c.id)
           IN /\ Len(l) = 2
              /\ l[1].chunk_index = 0 /\ l[1].raw_text = "b"
              /\ l[2].chunk_index = 1 /\ l[2].raw_text = "a"
              /\ l[1].tokenized_json /\ l[2].tokenized_json

\* every chunk belongs to a stored content
C26_NoOrphan == \A r \in content_chunks : get(content, r.content_id) # {}

\* what a finished delete_content returned and left behind
C26_DeleteResult ==
    (cont_call.op = "delete" /\ cont_pc = "returned") =>
        IF get(cont_call.pre_content, cont_call.content_id) # {}
        THEN /\ cont_call.ret = "true"
             /\ get(content, cont_call.content_id) = {}
             /\ ChunksOf(cont_call.content_id) = {}
        ELSE /\ cont_call.ret = "false"
             /\ content = cont_call.pre_content
             /\ content_chunks = cont_call.pre_chunks

\* C26: delete_content of a stored content returns True and leaves neither
\* the content nor a chunk with its content_id; of an id that is not stored
\* it returns False and changes nothing; and a chunk never exists without
\* its parent content.
C26_DeleteRemovesAll == C26_NoOrphan /\ C26_DeleteResult

\* C26 witness: a content with two chunks was deleted while another content
\* with a chunk stays stored
C26_Witness ==
    /\ cont_pc = "returned"
    /\ cont_call.op = "delete"
    /\ cont_call.ret = "true"
    /\ Cardinality({r \in cont_call.pre_chunks :
                        r.content_id = cont_call.content_id}) = 2
    /\ content_chunks # {}


\* C28: the new_score a record_lookup returns is never greater than its
\* old_score, and the new_score a record_read_without_lookup returns is
\* never less than its old_score, for an item in any state the record
\* events can reach.
C28_ScoreDirection ==
    \A r \in Requests :
        req[r].pc = "returned" =>
            /\ req[r].kind = "lookup" =>
                   RatLeq(req[r].ret.new_score, req[r].ret.old_score)
            /\ req[r].kind = "read" =>
                   RatLeq(req[r].ret.old_score, req[r].ret.new_score)


\* C29: after any sequence of record events, two concurrent first
\* encounters of a dictionary form included, the form has at most one
\* vocabulary row and at most one score row.
C29_OneRowPerForm ==
    \A f \in Forms :
        LET ids == {k \in 1..Len(vocabulary) : vocabulary[k] = f}
        IN /\ Cardinality(ids) <= 1
           /\ Cardinality({k \in 1..Len(vocabulary_scores) :
                               vocabulary_scores[k].vocabulary_id \in ids}) <= 1


(***************************************************************************)
(* Part 10: concurrent requests on the user_proficiency table              *)
(*          (app/repositories/proficiency_repo.py,                         *)
(*          app/services/proficiency_service.py)                           *)
(*                                                                         *)
(* Every request has its own session, and the requests interleave at each  *)
(* await.  A request loads the row that select(UserProficiency).limit(1)   *)
(* yields, the first of the table, and writes to the row it loaded.        *)
(***************************************************************************)
ProfOps == {"get_proficiency", "record_reading_session",
            "record_difficulty_rating", "update_thresholds"}

Ratings == {"easy", "just_right", "hard"}

\* the thresholds an update_thresholds request may carry
Thresholds == {<<3, 10>>}

\* the metrics of a record-reading request
ReadingMetrics ==
    [characters_read |-> 600, tokens_read |-> 400, lookups |-> 20,
     reading_time_seconds |-> 60]

\* add_difficulty_rating: the rating count that is raised
Rated(p, rating) ==
    IF rating = "easy" THEN [p EXCEPT !.easy_ratings = @ + 1]
    ELSE IF rating = "just_right" THEN [p EXCEPT !.just_right_ratings = @ + 1]
    ELSE [p EXCEPT !.hard_ratings = @ + 1]

\* what an operation assigns to the row object it holds
Assigned(q) ==
    IF q.op = "record_reading_session"
    THEN UpdatedMetrics(q.proficiency, ReadingMetrics)
    ELSE IF q.op = "record_difficulty_rating"
    THEN Rated(q.proficiency, q.rating)
    ELSE [q.proficiency EXCEPT !.auto_furigana_threshold = q.threshold]

\* a request arrives: a new session, nothing loaded
ConcCall(r, op, rating, threshold) ==
    /\ conc_req[r].pc = "idle"
    /\ conc_calls < MaxConcCalls
    /\ conc_req' = [conc_req EXCEPT ![r] =
           [pc |-> "select", op |-> op, rating |-> rating,
            threshold |-> threshold, row |-> 0,
            proficiency |-> NewUserProficiency, new_level |-> ""]]
    /\ conc_calls' = conc_calls + 1
    /\ UNCHANGED user_proficiency
    /\ UNCHANGED notProfConc

\* where a request goes once get_or_create has returned the row
AfterLoad(q) == IF q.op = "get_proficiency" THEN "returned" ELSE "write"

\* get_or_create: select(UserProficiency).limit(1) and result.first()
ConcSelect(r) ==
    /\ conc_req[r].pc = "select"
    /\ conc_req' = [conc_req EXCEPT ![r] =
           IF user_proficiency = <<>>
           THEN [@ EXCEPT !.pc = "insert"]
           ELSE [@ EXCEPT !.row = 1, !.proficiency = user_proficiency[1],
                          !.pc = AfterLoad(conc_req[r])]]
    /\ UNCHANGED <<user_proficiency, conc_calls>>
    /\ UNCHANGED notProfConc

\* get_or_create: no row was found; UserProficiency() is added, committed
\* and refreshed
ConcInsert(r) ==
    /\ conc_req[r].pc = "insert"
    /\ user_proficiency' = Append(user_proficiency, NewUserProficiency)
    /\ conc_req' = [conc_req EXCEPT ![r] =
           [@ EXCEPT !.row = Len(user_proficiency) + 1,
                     !.pc = AfterLoad(conc_req[r])]]
    /\ UNCHANGED conc_calls
    /\ UNCHANGED notProfConc

\* update_metrics, add_difficulty_rating, update_thresholds: the
\* assignments, session.add, commit and refresh
ConcWrite(r) ==
    /\ conc_req[r].pc = "write"
    /\ LET q == conc_req[r]
           now == Assigned(q)
           new_level == calculate_level(now.avg_lookup_rate)
       IN /\ user_proficiency' = [user_proficiency EXCEPT ![q.row] = now]
          /\ conc_req' = [conc_req EXCEPT ![r] =
                 IF q.op = "record_reading_session" /\ EnoughData(now)
                    /\ new_level # now.level
                 THEN [@ EXCEPT !.proficiency = now, !.new_level = new_level,
                                !.pc = "level"]
                 ELSE [@ EXCEPT !.proficiency = now, !.pc = "returned"]]
    /\ UNCHANGED conc_calls
    /\ UNCHANGED notProfConc

\* record_reading_session: update_level(new_level) on the loaded row
ConcLevel(r) ==
    /\ conc_req[r].pc = "level"
    /\ LET q == conc_req[r]
           now == [q.proficiency EXCEPT !.level = q.new_level]
       IN /\ user_proficiency' = [user_proficiency EXCEPT ![q.row] = now]
          /\ conc_req' = [conc_req EXCEPT ![r] =
                 [@ EXCEPT !.proficiency = now, !.pc = "returned"]]
    /\ UNCHANGED conc_calls
    /\ UNCHANGED notProfConc

\* the route answers and the session closes
ConcRespond(r) ==
    /\ conc_req[r].pc = "returned"
    /\ conc_req' = [conc_req EXCEPT ![r] = IdleRequest]
    /\ UNCHANGED <<user_proficiency, conc_calls>>
    /\ UNCHANGED notProfConc

ProfConcInit == ProfStart /\ ProfConcIdle /\ SegIdle /\ ScoreStart /\ CalcIdle
                /\ BatchIdle /\ TokIdle /\ LevelIdle /\ DiffIdle /\ ContIdle
             /\ LazyIdle
             /\ DlIdle

ProfConcNext ==
    \E r \in Requests :
        \/ \E op \in ProfOps, rating \in Ratings, threshold \in Thresholds :
               ConcCall(r, op, rating, threshold)
        \/ ConcSelect(r)
        \/ ConcInsert(r)
        \/ ConcWrite(r)
        \/ ConcLevel(r)
        \/ ConcRespond(r)

SpecProfConc == ProfConcInit /\ [][ProfConcNext]_vars

\* C27: UserProficiency is a singleton: after any sequence of operations on
\* it, two concurrent first requests against an empty table included, at
\* most one row exists and every request holds that row.
C27_SingleRow ==
    /\ Len(user_proficiency) <= 1
    /\ \A r \in Requests :
           conc_req[r].pc \in {"write", "level", "returned"} =>
               conc_req[r].row = 1


(***************************************************************************)
(* Part 11: the lazily initialized shared handles                          *)
(*          (app/services/dictionary_service.py, app/api/routes/data.py)   *)
(*                                                                         *)
(* Threads interleave between any two statements.  An object is a number:  *)
(* the n-th object an initializer constructs is n, and 0 is None.  Whether *)
(* jamdict and sudachipy can be imported is fixed for a run.  get_tokenizer *)
(* is called by the thread _init_services starts at import and by the      *)
(* request handlers.                                                       *)
(***************************************************************************)
LazyStart ==
    /\ LazyFresh
    /\ jamdict_importable \in BOOLEAN
    /\ sudachipy_importable \in BOOLEAN

lazyEnv == <<jamdict_importable, sudachipy_importable>>

\* a thread calls an initializer
LazyCall(t, f) ==
    /\ thread[t].pc = "idle"
    /\ thread' = [thread EXCEPT ![t] = [pc |-> "check", fn |-> f, ret |-> 0]]
    /\ UNCHANGED <<handle, lock, made, got, lazyEnv>>
    /\ UNCHANGED notLazy

\* get_instance, _get_jamdict: the first "is None" test, outside the lock
CheckUnlocked(t) ==
    /\ thread[t].pc = "check"
    /\ thread[t].fn \in Locked
    /\ thread' = [thread EXCEPT ![t].pc =
           IF handle[thread[t].fn] = 0 THEN "acquire" ELSE "return"]
    /\ UNCHANGED <<handle, lock, made, got, lazyEnv>>
    /\ UNCHANGED notLazy

\* threading.Lock: whether the lock of an initializer can be acquired
LockFree(f) == lock[f] = 0

\* get_instance, _get_jamdict: "with lock:" acquires the lock
Acquire(t) ==
    /\ thread[t].pc = "acquire"
    /\ LockFree(thread[t].fn)
    /\ lock' = [lock EXCEPT ![thread[t].fn] = t]
    /\ thread' = [thread EXCEPT ![t].pc = "check_locked"]
    /\ UNCHANGED <<handle, made, got, lazyEnv>>
    /\ UNCHANGED notLazy

\* get_instance, _get_jamdict: the second "is None" test, under the lock;
\* when the handle is set the with block is left
CheckLocked(t) ==
    /\ thread[t].pc = "check_locked"
    /\ IF handle[thread[t].fn] = 0
       THEN /\ thread' = [thread EXCEPT ![t].pc = "construct"]
            /\ UNCHANGED lock
       ELSE /\ thread' = [thread EXCEPT ![t].pc = "return"]
            /\ lock' = [lock EXCEPT ![thread[t].fn] = 0]
    /\ UNCHANGED <<handle, made, got, lazyEnv>>
    /\ UNCHANGED notLazy

\* get_instance: cls._instance = cls(); _get_jamdict: self._jamdict =
\* Jamdict(); the with block is left
Construct(t) ==
    /\ thread[t].pc = "construct"
    /\ thread[t].fn \in Locked
    /\ thread[t].fn = "_get_jamdict" => jamdict_importable
    /\ made' = [made EXCEPT ![thread[t].fn] = @ + 1]
    /\ handle' = [handle EXCEPT ![thread[t].fn] = made[thread[t].fn] + 1]
    /\ lock' = [lock EXCEPT ![thread[t].fn] = 0]
    /\ thread' = [thread EXCEPT ![t].pc = "return"]
    /\ UNCHANGED <<got, lazyEnv>>
    /\ UNCHANGED notLazy

\* _get_jamdict: the import fails, RuntimeError leaves the with block
ConstructRaises(t) ==
    /\ thread[t].pc = "construct"
    /\ thread[t].fn = "_get_jamdict"
    /\ ~jamdict_importable
    /\ lock' = [lock EXCEPT ![thread[t].fn] = 0]
    /\ thread' = [thread EXCEPT ![t].pc = "raised"]
    /\ UNCHANGED <<handle, made, got, lazyEnv>>
    /\ UNCHANGED notLazy

\* get_tokenizer: "if _tokenizer is None"
TokenizerCheck(t) ==
    /\ thread[t].pc = "check"
    /\ thread[t].fn = "get_tokenizer"
    /\ thread' = [thread EXCEPT ![t].pc =
           IF handle["get_tokenizer"] = 0 THEN "construct" ELSE "return"]
    /\ UNCHANGED <<handle, lock, made, got, lazyEnv>>
    /\ UNCHANGED notLazy

\* get_tokenizer: _tokenizer = Dictionary().create(), or pass on ImportError
TokenizerCreate(t) ==
    /\ thread[t].pc = "construct"
    /\ thread[t].fn = "get_tokenizer"
    /\ IF sudachipy_importable
       THEN /\ made' = [made EXCEPT !["get_tokenizer"] = @ + 1]
            /\ handle' = [handle EXCEPT
                   !["get_tokenizer"] = made["get_tokenizer"] + 1]
       ELSE UNCHANGED <<handle, made>>
    /\ thread' = [thread EXCEPT ![t].pc = "return"]
    /\ UNCHANGED <<lock, got, lazyEnv>>
    /\ UNCHANGED notLazy

\* return cls._instance / self._jamdict / _tokenizer
LazyReturn(t) ==
    /\ thread[t].pc = "return"
    /\ thread' = [thread EXCEPT ![t].pc = "done",
                                ![t].ret = handle[thread[t].fn]]
    /\ got' = [got EXCEPT ![thread[t].fn] = @ \cup {handle[thread[t].fn]}]
    /\ UNCHANGED <<handle, lock, made, lazyEnv>>
    /\ UNCHANGED notLazy

\* the caller goes on with what it got, or with the error
LazyDone(t) ==
    /\ thread[t].pc \in {"done", "raised"}
    /\ thread' = [thread EXCEPT ![t] = [pc |-> "idle", fn |-> "", ret |-> 0]]
    /\ UNCHANGED <<handle, lock, made, got, lazyEnv>>
    /\ UNCHANGED notLazy

LazyInit == LazyStart /\ SegIdle /\ ScoreStart /\ CalcIdle /\ BatchIdle
            /\ TokIdle /\ LevelIdle /\ ProfStart /\ DiffIdle /\ ContIdle
            /\ ProfConcIdle
             /\ DlIdle

LazyNext ==
    \E t \in Threads :
        \/ \E f \in LazyFns : LazyCall(t, f)
        \/ CheckUnlocked(t)
        \/ Acquire(t)
        \/ CheckLocked(t)
        \/ Construct(t)
        \/ ConstructRaises(t)
        \/ TokenizerCheck(t)
        \/ TokenizerCreate(t)
        \/ LazyReturn(t)
        \/ LazyDone(t)

SpecLazy == LazyInit /\ [][LazyNext]_vars

\* C24: every lazily initialized shared handle is initialized at most once,
\* also under concurrent first use by several threads, and every caller
\* gets the same object.
C24_InitializedOnce ==
    \A f \in LazyFns :
        /\ made[f] <= 1
        /\ Cardinality(got[f]) <= 1


(***************************************************************************)
(* Part 12: the download manager (app/services/download_manager.py,        *)
(*          app/api/routes/video_browse.py)                                *)
(*                                                                         *)
(* One download.  Manager 1 is the DownloadManager of the request that     *)
(* queued it: its session holds the Download object the background tasks   *)
(* work on, and its _download_tasks holds the task.  Manager 2 is a        *)
(* DownloadManager made for another request, as every route makes one: a   *)
(* session of its own and an empty _download_tasks.  The tasks and the     *)
(* requests interleave at each await.  A commit of a session writes the    *)
(* columns its object has changed.                                         *)
(***************************************************************************)
Managers == {1, 2}

\* queue_download: the record is created and committed, the task is started
QueueDownload ==
    /\ downloads = <<>>
    /\ tasks[1] = "none"
    /\ downloads' = <<NewDownload>>
    /\ download' = NewObject
    /\ tasks' = [tasks EXCEPT ![1] = "start"]
    /\ download_tasks' = 1
    /\ UNCHANGED cancel_req
    /\ UNCHANGED notDl

\* _process_download: the record is fetched, marked downloading and committed
TaskBegin(k) ==
    /\ tasks[k] = "start"
    /\ download' = [download EXCEPT !.status = "downloading", !.dirty = FALSE]
    /\ downloads' = <<DownloadColumns(download')>>
    /\ tasks' = [tasks EXCEPT ![k] = "thread"]
    /\ UNCHANGED <<download_tasks, cancel_req>>
    /\ UNCHANGED notDl

\* _process_download: download_video returned a result
TaskSucceeds(k) ==
    /\ tasks[k] = "thread"
    /\ download' = [download EXCEPT !.status = "completed", !.dirty = TRUE]
    /\ tasks' = [tasks EXCEPT ![k] = "commit"]
    /\ UNCHANGED <<downloads, download_tasks, cancel_req>>
    /\ UNCHANGED notDl

\* _process_download: download_video returned None or raised;
\* _handle_download_failure counts the failure and schedules a retry or
\* gives up
TaskFails(k) ==
    /\ tasks[k] = "thread"
    /\ LET n == download.retry_count + 1
       IN IF n < MAX_RETRIES
          THEN /\ download' = [status |-> "pending", retry_count |-> n,
                               dirty |-> TRUE]
               /\ tasks' = [tasks EXCEPT ![k] = "commit", ![k + 1] = "start"]
               /\ download_tasks' = k + 1
          ELSE /\ download' = [status |-> "failed", retry_count |-> n,
                               dirty |-> TRUE]
               /\ tasks' = [tasks EXCEPT ![k] = "commit"]
               /\ UNCHANGED download_tasks
    /\ UNCHANGED <<downloads, cancel_req>>
    /\ UNCHANGED notDl

\* _process_download: the final commit, then the entry of the download is
\* removed from _download_tasks
TaskCommit(k) ==
    /\ tasks[k] = "commit"
    /\ downloads' = IF download.dirty THEN <<DownloadColumns(download)>> ELSE downloads
    /\ download' = [download EXCEPT !.dirty = FALSE]
    /\ download_tasks' = 0
    /\ tasks' = [tasks EXCEPT ![k] = "done"]
    /\ UNCHANGED cancel_req
    /\ UNCHANGED notDl

\* cancel_download: self._session.get(Download, download_id); manager 1
\* gets the object its session holds, manager 2 loads the row
CancelCall(m) ==
    /\ cancel_req.pc = "idle"
    /\ downloads # <<>>
    /\ cancel_req' = [pc |-> "loaded", manager |-> m,
                      obj |-> IF m = 1 THEN DownloadColumns(download) ELSE downloads[1],
                      active |-> FALSE]
    /\ UNCHANGED <<downloads, download, tasks, download_tasks>>
    /\ UNCHANGED notDl

\* the task cancel_download cancels: the one its manager has registered
Registered(m) == IF m = 1 THEN download_tasks ELSE 0

\* cancel_download: the registered task is cancelled and forgotten, and a
\* pending or downloading record is marked failed and committed
CancelCommit ==
    /\ cancel_req.pc = "loaded"
    /\ LET m == cancel_req.manager
           obj == IF m = 1 THEN DownloadColumns(download) ELSE cancel_req.obj
           active == obj.status \in {"pending", "downloading"}
           task == Registered(m)
       IN /\ tasks' = IF task # 0 /\ tasks[task] # "done"
                      THEN [tasks EXCEPT ![task] = "cancelled"]
                      ELSE tasks
          /\ download_tasks' = IF task # 0 THEN 0 ELSE download_tasks
          /\ download' = IF m = 1 /\ active
                         THEN [download EXCEPT !.status = "failed",
                                               !.dirty = FALSE]
                         ELSE download
          /\ downloads' =
                 IF ~active THEN downloads
                 ELSE IF m = 1 THEN <<DownloadColumns(download')>>
                 ELSE <<[downloads[1] EXCEPT !.status = "failed"]>>
          /\ cancel_req' = [cancel_req EXCEPT !.pc = "returned",
                                              !.active = active]
    /\ UNCHANGED notDl

DlInit == DlIdle /\ SegIdle /\ ScoreStart /\ CalcIdle /\ BatchIdle /\ TokIdle
          /\ LevelIdle /\ ProfStart /\ DiffIdle /\ ContIdle /\ ProfConcIdle
          /\ LazyIdle

DlNext ==
    \/ QueueDownload
    \/ \E k \in Tasks : TaskBegin(k)
    \/ \E k \in Tasks : TaskSucceeds(k)
    \/ \E k \in Tasks : TaskFails(k)
    \/ \E k \in Tasks : TaskCommit(k)
    \/ \E m \in Managers : CancelCall(m)
    \/ CancelCommit

SpecDl == DlInit /\ [][DlNext]_vars

\* C30: once cancel_download has returned True for a download that was
\* pending or downloading, its status is failed and stays failed: no
\* background attempt sets it to downloading, pending or completed.
C30_CancelledStaysFailed ==
    (cancel_req.pc = "returned" /\ cancel_req.active) =>
        downloads[1].status = "failed"

====
